---- MODULE Spec2Model ----
(***************************************************************************)
(* Session-cookie signing and verification (substrate-system/cookie).      *)
(*                                                                         *)
(* src/src/index.ts holds two implementations of the same API:             *)
(*   "sync"  (lines 1-210):   node:crypto HMAC-SHA1, 27-character signature *)
(*   "async" (lines 212-458): WebCrypto HMAC-SHA-256, 43-character          *)
(*                            signature                                    *)
(* Both are modelled; every operator that differs takes the                *)
(* implementation as its first parameter `impl`.                           *)
(*                                                                         *)
(* Representation.  A JavaScript string is a sequence of character codes   *)
(* (natural numbers, one per UTF-16 code unit of the Basic Multilingual    *)
(* Plane); a Uint8Array / Buffer is a sequence of numbers in 0..255.       *)
(* A function that can throw returns a record [threw, val]: threw = TRUE   *)
(* stands for the exception (or the rejected promise).                     *)
(***************************************************************************)
EXTENDS Integers, Sequences, FiniteSets, TLC

(***************************************************************************)
(* Results of calls that may throw.                                        *)
(***************************************************************************)
Ok(v) == [threw |-> FALSE, val |-> v]
Throw(v) == [threw |-> TRUE, val |-> v]

(***************************************************************************)
(* Small arithmetic helpers for the bit operations of the codecs.          *)
(***************************************************************************)
Pow2(n) == 2 ^ n

\* buffer >> n
Shr(x, n) == x \div Pow2(n)

\* mask & x, where mask = 2^n - 1
LowBits(x, n) == x % Pow2(n)

(***************************************************************************)
(* The 'base64' codec of uint8arrays (multiformats rfc4648, 6 bits per     *)
(* character, alphabet A-Z a-z 0-9 + /, NO padding on encode), which       *)
(* createSession, verifySessionString, parseSession and the async sign     *)
(* call through toString(bytes, 'base64') / fromString(str, 'base64').     *)
(***************************************************************************)
\* alphabet[v] for a 6-bit value v in 0..63
B64Char(v) ==
    IF v < 26 THEN 65 + v              \* 'A'..'Z'
    ELSE IF v < 52 THEN 97 + (v - 26)  \* 'a'..'z'
    ELSE IF v < 62 THEN 48 + (v - 52)  \* '0'..'9'
    ELSE IF v = 62 THEN 43             \* '+'
    ELSE 47                            \* '/'

\* alphabetIdx[c]: the 6-bit value of character c, or -1 (undefined)
B64Index(c) ==
    IF c >= 65 /\ c <= 90 THEN c - 65
    ELSE IF c >= 97 /\ c <= 122 THEN c - 97 + 26
    ELSE IF c >= 48 /\ c <= 57 THEN c - 48 + 52
    ELSE IF c = 43 THEN 62
    ELSE IF c = 47 THEN 63
    ELSE -1

\* the inner `while (bits > bitsPerChar)` loop of the encoder: the
\* characters emitted for the bits now in the buffer
RECURSIVE B64Emit(_, _)
B64Emit(buffer, bits) ==
    IF bits > 6
    THEN <<B64Char(LowBits(Shr(buffer, bits - 6), 6))>> \o B64Emit(buffer, bits - 6)
    ELSE <<>>

\* the number of bits left in the buffer after the inner loop
RECURSIVE B64Left(_)
B64Left(bits) == IF bits > 6 THEN B64Left(bits - 6) ELSE bits

\* the outer `for` loop of the encoder from byte i on, and the final
\* partial character
RECURSIVE B64EncodeFrom(_, _, _, _)
B64EncodeFrom(data, i, buffer, bits) ==
    IF i > Len(data)
    THEN IF bits # 0
         THEN <<B64Char(LowBits(buffer * Pow2(6 - bits), 6))>>
         ELSE <<>>
    ELSE LET buf == LowBits(buffer, bits) * 256 + data[i]
             b == bits + 8
         IN  B64Emit(buf, b) \o B64EncodeFrom(data, i + 1, buf, B64Left(b))

\* '=' appended while (out.length * 6) & 7 # 0  (only the padded variant)
RECURSIVE B64Pad(_)
B64Pad(out) == IF (Len(out) * 6) % 8 # 0 THEN B64Pad(out \o <<61>>) ELSE out

\* toString(bytes, 'base64'): unpadded
ToBase64(bytes) == B64EncodeFrom(bytes, 1, 0, 0)

\* hmac.digest('base64') of node:crypto: the same alphabet, padded with '='
ToBase64Padded(bytes) == B64Pad(B64EncodeFrom(bytes, 1, 0, 0))

\* `while (string[end - 1] === '=') --end`
RECURSIVE B64End(_, _)
B64End(str, end) ==
    IF end >= 1 /\ str[end] = 61 THEN B64End(str, end - 1) ELSE end

\* the decoder's `for` loop from character i on; the final test
\* `bits >= bitsPerChar || (0xff & (buffer << (8 - bits))) !== 0`.
\* (The first two tests always hold: they make TLC evaluate `out` and
\* `buffer` at every step, as the loop does, instead of keeping a chain of
\* pending steps as long as the text.)
RECURSIVE B64DecodeFrom(_, _, _, _, _, _)
B64DecodeFrom(str, end, i, buffer, bits, out) ==
    IF Len(out) >= 0 /\ buffer >= 0 /\ i > end
    THEN IF bits >= 6 \/ LowBits(buffer * Pow2(8 - bits), 8) # 0
         THEN Throw(<<>>)                       \* 'Unexpected end of data'
         ELSE Ok(out)
    ELSE IF B64Index(str[i]) = -1
         THEN Throw(<<>>)                       \* 'Non-base64 character'
         ELSE LET buf == LowBits(buffer, bits) * 64 + B64Index(str[i])
                  b == bits + 6
              IN  IF b >= 8
                  THEN B64DecodeFrom(str, end, i + 1, buf, b - 8,
                                     Append(out, LowBits(Shr(buf, b - 8), 8)))
                  ELSE B64DecodeFrom(str, end, i + 1, buf, b, out)

\* fromString(str, 'base64')
FromBase64(str) == B64DecodeFrom(str, B64End(str, Len(str)), 1, 0, 0, <<>>)

(***************************************************************************)
(* UTF-8.  fromString(str) / fromString(str, 'utf-8') encodes a string     *)
(* (TextEncoder, or Buffer.from(str, 'utf-8') under Node): a surrogate     *)
(* pair becomes one 4-byte sequence, a lone surrogate becomes U+FFFD.      *)
(***************************************************************************)
IsHighSurrogate(c) == c >= 55296 /\ c <= 56319     \* D800..DBFF
IsLowSurrogate(c) == c >= 56320 /\ c <= 57343      \* DC00..DFFF

\* the UTF-8 bytes of one code point
Utf8Bytes(cp) ==
    IF cp < 128 THEN <<cp>>
    ELSE IF cp < 2048 THEN <<192 + (cp \div 64), 128 + (cp % 64)>>
    ELSE IF cp < 65536
         THEN <<224 + (cp \div 4096), 128 + ((cp \div 64) % 64), 128 + (cp % 64)>>
    ELSE <<240 + (cp \div 262144), 128 + ((cp \div 4096) % 64),
           128 + ((cp \div 64) % 64), 128 + (cp % 64)>>

RECURSIVE Utf8EncodeFrom(_, _)
Utf8EncodeFrom(str, i) ==
    IF i > Len(str) THEN <<>>
    ELSE IF IsHighSurrogate(str[i]) /\ i < Len(str) /\ IsLowSurrogate(str[i + 1])
         THEN Utf8Bytes(65536 + ((str[i] - 55296) * 1024) + (str[i + 1] - 56320))
              \o Utf8EncodeFrom(str, i + 2)
    ELSE IF IsHighSurrogate(str[i]) \/ IsLowSurrogate(str[i])
         THEN <<239, 191, 189>> \o Utf8EncodeFrom(str, i + 1)
    ELSE Utf8Bytes(str[i]) \o Utf8EncodeFrom(str, i + 1)

\* fromString(str, 'utf-8')
Utf8Encode(str) == Utf8EncodeFrom(str, 1)

(***************************************************************************)
(* toString(bytes, 'utf-8') decodes without failing: every ill-formed      *)
(* sequence becomes U+FFFD (the WHATWG "UTF-8 decoder", which TextDecoder  *)
(* and Node's Buffer.toString both follow).  The decoder's state is        *)
(* (code point, bytes needed, bytes seen, lower boundary, upper boundary). *)
(***************************************************************************)
\* the code units of one decoded code point
Utf16Units(cp) ==
    IF cp < 65536 THEN <<cp>>
    ELSE <<55296 + ((cp - 65536) \div 1024), 56320 + ((cp - 65536) % 1024)>>

RECURSIVE Utf8DecodeFrom(_, _, _, _, _, _, _)
Utf8DecodeFrom(bytes, i, cp, needed, seen, lower, upper) ==
    IF i > Len(bytes)
    THEN IF needed # 0 THEN <<65533>> ELSE <<>>
    ELSE LET b == bytes[i] IN
         IF needed = 0
         THEN IF b <= 127
              THEN <<b>> \o Utf8DecodeFrom(bytes, i + 1, 0, 0, 0, 128, 191)
              ELSE IF b >= 194 /\ b <= 223
              THEN Utf8DecodeFrom(bytes, i + 1, b % 32, 1, 0, 128, 191)
              ELSE IF b >= 224 /\ b <= 239
              THEN Utf8DecodeFrom(bytes, i + 1, b % 16, 2, 0,
                                  IF b = 224 THEN 160 ELSE 128,
                                  IF b = 237 THEN 159 ELSE 191)
              ELSE IF b >= 240 /\ b <= 244
              THEN Utf8DecodeFrom(bytes, i + 1, b % 8, 3, 0,
                                  IF b = 240 THEN 144 ELSE 128,
                                  IF b = 244 THEN 143 ELSE 191)
              ELSE <<65533>> \o Utf8DecodeFrom(bytes, i + 1, 0, 0, 0, 128, 191)
         ELSE IF b < lower \/ b > upper
              \* the byte is put back and decoded again from the start state
              THEN <<65533>> \o Utf8DecodeFrom(bytes, i, 0, 0, 0, 128, 191)
              ELSE IF seen + 1 # needed
              THEN Utf8DecodeFrom(bytes, i + 1, (cp * 64) + (b % 64), needed,
                                  seen + 1, 128, 191)
              ELSE Utf16Units((cp * 64) + (b % 64))
                   \o Utf8DecodeFrom(bytes, i + 1, 0, 0, 0, 128, 191)

\* The two builds of uint8arrays differ on a leading byte order mark:
\* TextDecoder ("web") drops EF BB BF, Buffer.toString ("node") keeps it as
\* U+FEFF.
HasBOM(bytes) ==
    Len(bytes) >= 3 /\ bytes[1] = 239 /\ bytes[2] = 187 /\ bytes[3] = 191

\* toString(bytes, 'utf-8')
Utf8Decode(env, bytes) ==
    Utf8DecodeFrom(bytes, IF env = "web" /\ HasBOM(bytes) THEN 4 ELSE 1,
                   0, 0, 0, 128, 191)

(***************************************************************************)
(* Session data.  The declared type of createSession's first argument is   *)
(* Record<string, string>: an object is modelled as the sequence of its    *)
(* <<key, value>> properties in insertion order, with distinct keys.       *)
(***************************************************************************)
Keys(obj) == {obj[i][1] : i \in 1..Len(obj)}

\* the value of property k (the last one written, as JSON.parse keeps it)
Get(obj, k) ==
    obj[CHOOSE i \in 1..Len(obj) :
            /\ obj[i][1] = k
            /\ \A j \in (i + 1)..Len(obj) : obj[j][1] # k][2]

\* t.deepEqual on two such objects: the same keys with the same values,
\* whatever the insertion order
DeepEqual(o1, o2) ==
    /\ Keys(o1) = Keys(o2)
    /\ \A k \in Keys(o1) : Get(o1, k) = Get(o2, k)

(***************************************************************************)
(* stringify of json-canon (RFC 8785): the properties sorted by key, in    *)
(* the order of Array.prototype.sort (UTF-16 code units), each key and     *)
(* value quoted as JSON.stringify quotes a string, no white space.         *)
(***************************************************************************)
\* a < b in code-unit order
RECURSIVE StrLess(_, _)
StrLess(a, b) ==
    IF b = <<>> THEN FALSE
    ELSE IF a = <<>> THEN TRUE
    ELSE IF a[1] # b[1] THEN a[1] < b[1]
    ELSE StrLess(Tail(a), Tail(b))

\* one hexadecimal digit, lower case
HexDigit(v) == IF v < 10 THEN 48 + v ELSE 97 + (v - 10)

\* \uXXXX
UnicodeEscape(c) ==
    <<92, 117, HexDigit(c \div 4096), HexDigit((c \div 256) % 16),
      HexDigit((c \div 16) % 16), HexDigit(c % 16)>>

\* the characters JSON.stringify writes for the code unit at str[i]
QuoteChar(str, i) ==
    LET c == str[i] IN
    IF c = 34 THEN <<92, 34>>                   \* \"
    ELSE IF c = 92 THEN <<92, 92>>              \* \\
    ELSE IF c = 8 THEN <<92, 98>>               \* \b
    ELSE IF c = 9 THEN <<92, 116>>              \* \t
    ELSE IF c = 10 THEN <<92, 110>>             \* \n
    ELSE IF c = 12 THEN <<92, 102>>             \* \f
    ELSE IF c = 13 THEN <<92, 114>>             \* \r
    ELSE IF c < 32 THEN UnicodeEscape(c)
    ELSE IF IsHighSurrogate(c)
         THEN IF i < Len(str) /\ IsLowSurrogate(str[i + 1])
              THEN <<c>> ELSE UnicodeEscape(c)
    ELSE IF IsLowSurrogate(c)
         THEN IF i > 1 /\ IsHighSurrogate(str[i - 1])
              THEN <<c>> ELSE UnicodeEscape(c)
    ELSE <<c>>

RECURSIVE QuoteFrom(_, _)
QuoteFrom(str, i) ==
    IF i > Len(str) THEN <<>> ELSE QuoteChar(str, i) \o QuoteFrom(str, i + 1)

\* JSON.stringify(str) for a string
QuoteJSONString(str) == <<34>> \o QuoteFrom(str, 1) \o <<34>>

\* the index of the property with the least key among obj's properties
MinKeyIndex(obj) ==
    CHOOSE i \in 1..Len(obj) :
        \A j \in 1..Len(obj) : j = i \/ StrLess(obj[i][1], obj[j][1])

\* obj without its i-th property
Without(obj, i) == SubSeq(obj, 1, i - 1) \o SubSeq(obj, i + 1, Len(obj))

\* a stringify that keeps the insertion order
SortByKeyInsertionOrder(obj) == obj

\* Object.keys(obj).sort(), as the properties in that order
RECURSIVE SortByKey(_)
SortByKey(obj) ==
    IF obj = <<>> THEN <<>>
    ELSE LET i == MinKeyIndex(obj)
         IN  <<obj[i]>> \o SortByKey(Without(obj, i))

\* "k":"v","k":"v",... for properties already in order
RECURSIVE Members(_, _)
Members(props, i) ==
    IF i > Len(props) THEN <<>>
    ELSE (IF i = 1 THEN <<>> ELSE <<44>>)
         \o QuoteJSONString(props[i][1]) \o <<58>> \o QuoteJSONString(props[i][2])
         \o Members(props, i + 1)

\* stringify(newSessionData)
stringify(obj) == <<123>> \o Members(SortByKey(obj), 1) \o <<125>>

(***************************************************************************)
(* JSON.parse, for the texts the model meets: one object whose values are  *)
(* strings (the declared Record<string, string>), with JSON's white space  *)
(* and string escapes.  Any other text is reported as a SyntaxError; texts *)
(* holding numbers, arrays, literals or nested objects are outside the     *)
(* model.                                                                  *)
(***************************************************************************)
NoParse == [ok |-> FALSE, val |-> <<>>, next |-> 0]

IsJSONSpace(c) == c \in {32, 9, 10, 13}

RECURSIVE SkipSpace(_, _)
SkipSpace(s, i) ==
    IF i <= Len(s) /\ IsJSONSpace(s[i]) THEN SkipSpace(s, i + 1) ELSE i

\* the value of a hexadecimal digit, or -1
HexVal(c) ==
    IF c >= 48 /\ c <= 57 THEN c - 48
    ELSE IF c >= 97 /\ c <= 102 THEN c - 87
    ELSE IF c >= 65 /\ c <= 70 THEN c - 55
    ELSE -1

\* the character a one-letter escape stands for, or -1
SimpleEscape(c) ==
    IF c \in {34, 92, 47} THEN c
    ELSE IF c = 98 THEN 8
    ELSE IF c = 102 THEN 12
    ELSE IF c = 110 THEN 10
    ELSE IF c = 114 THEN 13
    ELSE IF c = 116 THEN 9
    ELSE -1

\* the characters of a string literal from s[i] on (after the opening quote)
RECURSIVE ParseChars(_, _, _)
ParseChars(s, i, acc) ==
    IF i > Len(s) THEN NoParse
    ELSE IF s[i] = 34 THEN [ok |-> TRUE, val |-> acc, next |-> i + 1]
    ELSE IF s[i] < 32 THEN NoParse
    ELSE IF s[i] # 92 THEN ParseChars(s, i + 1, Append(acc, s[i]))
    ELSE IF i + 1 > Len(s) THEN NoParse
    ELSE IF s[i + 1] = 117
         THEN IF /\ i + 5 <= Len(s)
                 /\ \A j \in 2..5 : HexVal(s[i + j]) # -1
              THEN ParseChars(s, i + 6,
                       Append(acc, (HexVal(s[i + 2]) * 4096)
                                   + (HexVal(s[i + 3]) * 256)
                                   + (HexVal(s[i + 4]) * 16)
                                   + HexVal(s[i + 5])))
              ELSE NoParse
    ELSE IF SimpleEscape(s[i + 1]) # -1
         THEN ParseChars(s, i + 2, Append(acc, SimpleEscape(s[i + 1])))
    ELSE NoParse

\* a string literal at s[i]
ParseString(s, i) ==
    IF i <= Len(s) /\ s[i] = 34 THEN ParseChars(s, i + 1, <<>>) ELSE NoParse

\* obj with property k set to v: a key written twice keeps its first place
\* and its last value
SetProp(obj, k, v) ==
    IF k \in Keys(obj)
    THEN [i \in 1..Len(obj) |-> IF obj[i][1] = k THEN <<k, v>> ELSE obj[i]]
    ELSE Append(obj, <<k, v>>)

\* members from s[i] on (a key is expected at i), then '}' and the end
RECURSIVE ParseMembers(_, _, _)
ParseMembers(s, i, obj) ==
    LET k == ParseString(s, SkipSpace(s, i))
        colon == SkipSpace(s, k.next)
        v == ParseString(s, SkipSpace(s, colon + 1))
        after == SkipSpace(s, v.next)
    IN  IF ~k.ok \/ colon > Len(s) \/ s[colon] # 58 THEN Throw(<<>>)
        ELSE IF ~v.ok \/ after > Len(s) THEN Throw(<<>>)
        ELSE IF s[after] = 44
             THEN ParseMembers(s, after + 1, SetProp(obj, k.val, v.val))
        ELSE IF s[after] = 125 /\ SkipSpace(s, after + 1) > Len(s)
             THEN Ok(SetProp(obj, k.val, v.val))
        ELSE Throw(<<>>)

\* JSON.parse(s)
JSONParse(s) ==
    LET open == SkipSpace(s, 1)
        first == SkipSpace(s, open + 1)
    IN  IF open > Len(s) \/ s[open] # 123 \/ first > Len(s) THEN Throw(<<>>)
        ELSE IF s[first] = 125
             THEN IF SkipSpace(s, first + 1) > Len(s) THEN Ok(<<>>) ELSE Throw(<<>>)
        ELSE ParseMembers(s, first, <<>>)

(***************************************************************************)
(* HMAC.  SHA-1 and SHA-256 themselves are outside the repository and are  *)
(* not computed: the MAC is modelled as an ideal keyed function with the   *)
(* properties of HMAC (RFC 2104) that the code relies on or is exposed to: *)
(*   - it is deterministic and its length is fixed by the hash             *)
(*     (20 bytes for SHA-1, 32 bytes for SHA-256);                         *)
(*   - a key shorter than the hash's block is padded with zero bytes, so   *)
(*     keys that differ only in trailing zero bytes are the same key       *)
(*     (keys longer than the 64-byte block are outside the model);         *)
(*   - otherwise distinct (key, message) pairs give distinct MACs.  The    *)
(*     bytes below are a chained encoding of <<key, message>> that is      *)
(*     one-to-one as long as key and message fit into the digest, which    *)
(*     holds for the keys and session data of the model; longer inputs     *)
(*     (the signatures that timeSafeCompare hashes) are folded.            *)
(***************************************************************************)
DigestLength(hash) == IF hash = "sha1" THEN 20 ELSE 32

\* the key as HMAC uses it: zero padding makes trailing zero bytes void
RECURSIVE HmacKey(_)
HmacKey(k) ==
    IF k # <<>> /\ k[Len(k)] = 0 THEN HmacKey(SubSeq(k, 1, Len(k) - 1)) ELSE k

\* the bytes the MAC depends on: both lengths, then key and message
HmacInput(k, m) == <<Len(HmacKey(k)), Len(m)>> \o HmacKey(k) \o m

\* the input folded to the digest length: position i takes every byte at
\* i, i + n, i + 2n, ...
RECURSIVE FoldAt(_, _, _)
FoldAt(inp, i, n) ==
    IF i > Len(inp) THEN 0 ELSE (inp[i] + FoldAt(inp, i + n, n)) % 256

\* the chained bytes: each depends on all the input up to its position
RECURSIVE MacBytes(_, _, _, _)
MacBytes(inp, i, n, prev) ==
    IF i > n THEN <<>>
    ELSE LET h == ((prev * 5) + FoldAt(inp, i, n) + (i * 37) + 11) % 256
         IN  <<h>> \o MacBytes(inp, i + 1, n, h)

\* createHmac(hash, k).update(m).digest()  /  subtle.sign('HMAC', k, m)
Hmac(hash, k, m) ==
    MacBytes(HmacInput(k, m), 1, DigestLength(hash), DigestLength(hash))

(***************************************************************************)
(* timeSafeCompare.  `rk` is the random key of this one comparison         *)
(* (crypto.randomBytes(32) / subtle.generateKey).                          *)
(***************************************************************************)
\* util.ts (node:crypto), used by the sync implementation
bufferEqual(a, b) == IF Len(a) # Len(b) THEN FALSE ELSE a = b

timeSafeCompareSync(a, b, rk) ==
    LET ah == Hmac("sha256", rk, Utf8Encode(a))
        bh == Hmac("sha256", rk, Utf8Encode(b))
    IN  bufferEqual(ah, bh) /\ a = b

\* util.ts (WebCrypto), used by the async implementation: subtle.verify
\* recomputes the MAC of b and compares it with the MAC of a
timeSafeCompareAsync(a, b, rk) ==
    LET hmac == Hmac("sha256", rk, Utf8Encode(a))
    IN  hmac = Hmac("sha256", rk, Utf8Encode(b))

\* a comparison that looks at the lengths only
compareLengthOnly(impl, a, b, rk) == Len(a) = Len(b)

compare(impl, a, b, rk) ==
    IF impl = "sync" THEN timeSafeCompareSync(a, b, rk)
    ELSE timeSafeCompareAsync(a, b, rk)

(***************************************************************************)
(* sign: the MAC of the data as base64 rewritten to the URL-safe alphabet. *)
(***************************************************************************)
\* a sign that returns the base64 text as it is
UrlSafeNothing(str) == str

\* a replace that leaves the '=' padding in
RECURSIVE UrlSafeKeepsPadding(_)
UrlSafeKeepsPadding(str) ==
    IF str = <<>> THEN <<>>
    ELSE (IF str[1] = 47 THEN <<95>>
          ELSE IF str[1] = 43 THEN <<45>>
          ELSE <<str[1]>>) \o UrlSafeKeepsPadding(Tail(str))

\* .replace(/\/|\+|=/g, ...): '/' -> '_', '+' -> '-', '=' removed
RECURSIVE UrlSafe(_)
UrlSafe(str) ==
    IF str = <<>> THEN <<>>
    ELSE (IF str[1] = 47 THEN <<95>>
          ELSE IF str[1] = 43 THEN <<45>>
          ELSE IF str[1] = 61 THEN <<>>
          ELSE <<str[1]>>) \o UrlSafe(Tail(str))

\* The bytes of the HMAC key.  sync: createHmac(algorithm, key) takes the
\* key string itself, as UTF-8.  async: fromString(key, 'base64') decodes
\* it (which can throw) and importKey rejects an empty key.
keyBytes(impl, key) ==
    IF impl = "sync" THEN Ok(Utf8Encode(key))
    ELSE LET raw == FromBase64(key)
         IN  IF raw.threw \/ raw.val = <<>> THEN Throw(<<>>) ELSE raw

\* sync: HMAC-SHA1; node's digest('base64') pads
signSync(bytes, key) ==
    Ok(UrlSafe(ToBase64Padded(Hmac("sha1", keyBytes("sync", key).val, bytes))))

\* async: HMAC-SHA-256; uint8arrays' base64 does not pad
signAsync(bytes, key) ==
    LET raw == keyBytes("async", key)
    IN  IF raw.threw THEN Throw(<<>>)
        ELSE Ok(UrlSafe(ToBase64(Hmac("sha256", raw.val, bytes))))

\* both implementations signing with HMAC-SHA-256
signOneAlgorithm(impl, bytes, key) == signAsync(bytes, key)

\* sign(data, key) with the default algorithm; data given as its bytes
\* (a string argument is UTF-8 encoded by the callee)
sign(impl, bytes, key) ==
    IF impl = "sync" THEN signSync(bytes, key) ELSE signAsync(bytes, key)

(***************************************************************************)
(* The session token.                                                      *)
(***************************************************************************)
SIGNATURE_DIGEST_LENGTH(impl) == IF impl = "sync" THEN 27 ELSE 43

\* str.substring(from, to), 0-based and clamped as in JavaScript
Substring(str, from, to) ==
    LET lo == IF from > Len(str) THEN Len(str) ELSE from
        hi == IF to > Len(str) THEN Len(str) ELSE to
    IN  IF lo >= hi THEN <<>> ELSE SubSeq(str, lo + 1, hi)

\* a createSession that signs the base64 text instead of the JSON
createSessionSignsBase64(impl, newSessionData, secretKey) ==
    LET sessionAsJSON == stringify(newSessionData)
        base64Json == ToBase64(Utf8Encode(sessionAsJSON))
        sig == sign(impl, Utf8Encode(base64Json), secretKey)
    IN  IF sig.threw THEN Throw(<<>>) ELSE Ok(sig.val \o base64Json)

\* createSession(newSessionData, secretKey)
createSession(impl, newSessionData, secretKey) ==
    LET sessionAsJSON == stringify(newSessionData)
        arrFromString == Utf8Encode(sessionAsJSON)
        base64Json == ToBase64(arrFromString)
        sig == sign(impl, Utf8Encode(sessionAsJSON), secretKey)
    IN  IF sig.threw THEN Throw(<<>>) ELSE Ok(sig.val \o base64Json)

\* a verify that does not await the comparison: the pending promise it
\* returns is truthy
verifyNoAwait(impl, key, data, signature, rk) ==
    LET sig == sign(impl, Utf8Encode(data), key)
    IN  IF sig.threw THEN Throw(FALSE) ELSE Ok(TRUE)

\* verify(key, data, signature)
verify(impl, key, data, signature, rk) ==
    LET sig == sign(impl, Utf8Encode(data), key)
    IN  IF sig.threw THEN Throw(FALSE)
        ELSE Ok(compare(impl, signature, sig.val, rk))

\* a try block that verifies the payload without base64-decoding it
VerifyTryNoDecode(impl, env, session, key, rk) ==
    LET signature == Substring(session, 0, SIGNATURE_DIGEST_LENGTH(impl))
        data == Substring(session, SIGNATURE_DIGEST_LENGTH(impl), Len(session))
    IN  verify(impl, key, data, signature, rk)

\* the body of verifySessionString's try block
VerifyTry(impl, env, session, key, rk) ==
    LET signature == Substring(session, 0, SIGNATURE_DIGEST_LENGTH(impl))
        data == Substring(session, SIGNATURE_DIGEST_LENGTH(impl), Len(session))
        arr == FromBase64(data)
    IN  IF arr.threw THEN Throw(FALSE)
        ELSE verify(impl, key, Utf8Decode(env, arr.val), signature, rk)

\* a verifySessionString without the try / catch
verifySessionStringNoCatch(impl, env, session, key, rk) ==
    VerifyTry(impl, env, session, key, rk)

\* verifySessionString(session, key): `catch (_err) { return false }`
verifySessionString(impl, env, session, key, rk) ==
    LET r == VerifyTry(impl, env, session, key, rk)
    IN  IF r.threw THEN Ok(FALSE) ELSE r

\* a parseSession that splits at the other implementation's offset
parseSessionOtherOffset(impl, env, encodedSession) ==
    LET other == IF impl = "sync" THEN "async" ELSE "sync"
        data == Substring(encodedSession, SIGNATURE_DIGEST_LENGTH(other),
                          Len(encodedSession))
        asBuf == FromBase64(data)
    IN  IF asBuf.threw THEN Throw(<<>>)
        ELSE JSONParse(Utf8Decode(env, asBuf.val))

\* a parseSession that first looks at the signature and refuses a token
\* whose signature holds a character outside the base64 alphabets
parseSessionChecksSignature(impl, env, encodedSession) ==
    LET sig == Substring(encodedSession, 0, SIGNATURE_DIGEST_LENGTH(impl))
        data == Substring(encodedSession, SIGNATURE_DIGEST_LENGTH(impl),
                          Len(encodedSession))
        asBuf == FromBase64(data)
    IN  IF \E i \in 1..Len(sig) : B64Index(sig[i]) = -1 /\ sig[i] \notin {45, 95}
        THEN Throw(<<>>)
        ELSE IF asBuf.threw THEN Throw(<<>>)
        ELSE JSONParse(Utf8Decode(env, asBuf.val))

\* parseSession(encodedSession)
parseSession(impl, env, encodedSession) ==
    LET data == Substring(encodedSession, SIGNATURE_DIGEST_LENGTH(impl),
                          Len(encodedSession))
        asBuf == FromBase64(data)
    IN  IF asBuf.threw THEN Throw(<<>>)
        ELSE JSONParse(Utf8Decode(env, asBuf.val))

(***************************************************************************)
(* encodeURIComponent and decodeURIComponent (ECMAScript), the default     *)
(* `encode` of serializeCookie and `decode` of parseCookie.  An error is   *)
(* the thrown value's kind.                                                *)
(***************************************************************************)
TypeError == <<-10>>
URIError == <<-11>>

\* one upper-case hexadecimal digit
HexUpper(v) == IF v < 10 THEN 48 + v ELSE 55 + v

\* %XX for every byte
RECURSIVE PercentBytes(_)
PercentBytes(bytes) ==
    IF bytes = <<>> THEN <<>>
    ELSE <<37, HexUpper(bytes[1] \div 16), HexUpper(bytes[1] % 16)>>
         \o PercentBytes(Tail(bytes))

\* uriUnescaped: A-Z a-z 0-9 - _ . ! ~ * ' ( )
IsUriUnreserved(c) ==
    \/ c >= 65 /\ c <= 90
    \/ c >= 97 /\ c <= 122
    \/ c >= 48 /\ c <= 57
    \/ c \in {45, 95, 46, 33, 126, 42, 39, 40, 41}

\* encodeURIComponent(str) from the code unit at i on: a lone surrogate is
\* a URIError
RECURSIVE EncodeFrom(_, _, _)
EncodeFrom(str, i, out) ==
    IF i > Len(str) THEN Ok(out)
    ELSE IF IsUriUnreserved(str[i]) THEN EncodeFrom(str, i + 1, Append(out, str[i]))
    ELSE IF IsHighSurrogate(str[i]) /\ i < Len(str) /\ IsLowSurrogate(str[i + 1])
         THEN EncodeFrom(str, i + 2,
                  out \o PercentBytes(Utf8Encode(<<str[i], str[i + 1]>>)))
    ELSE IF IsHighSurrogate(str[i]) \/ IsLowSurrogate(str[i]) THEN Throw(URIError)
    ELSE EncodeFrom(str, i + 1, out \o PercentBytes(Utf8Bytes(str[i])))

\* util.ts encode(val): encodeURIComponent(val)
encode(val) == EncodeFrom(val, 1, <<>>)

\* the byte that %XX at str[i] stands for, or -1
PercentByte(str, i) ==
    IF /\ i + 2 <= Len(str)
       /\ str[i] = 37
       /\ HexVal(str[i + 1]) # -1
       /\ HexVal(str[i + 2]) # -1
    THEN (HexVal(str[i + 1]) * 16) + HexVal(str[i + 2])
    ELSE -1

\* how many bytes the UTF-8 sequence led by byte b has, or 0 when b leads
\* none
Utf8Length(b) ==
    IF b < 128 THEN 1
    ELSE IF b >= 192 /\ b <= 223 THEN 2
    ELSE IF b >= 224 /\ b <= 239 THEN 3
    ELSE IF b >= 240 /\ b <= 247 THEN 4
    ELSE 0

\* the index of the first code unit c of str at or after i, or Len(str) + 1
IndexFrom(str, c, i) ==
    LET found == { j \in i..Len(str) : str[j] = c }
    IN  IF found = {} THEN Len(str) + 1
        ELSE CHOOSE j \in found : \A k \in found : j <= k

\* decodeURIComponent(str) from the code unit at i on: code units up to the
\* next '%' stand for themselves, every escape must be %XX, and the escaped
\* bytes must be well-formed UTF-8
RECURSIVE DecodeFrom(_, _, _)
DecodeFrom(str, i, out) ==
    LET at == IndexFrom(str, 37, i)
        plain == out \o SubSeq(str, i, at - 1)
        b == PercentByte(str, at)
        n == IF b = -1 THEN 0 ELSE Utf8Length(b)
        octets == [j \in 1..n |-> PercentByte(str, at + (3 * (j - 1)))]
        text == Utf8DecodeFrom(octets, 1, 0, 0, 0, 128, 191)
    IN  IF at > Len(str) THEN Ok(plain)
        ELSE IF n = 0 \/ \E j \in 1..n : octets[j] = -1 THEN Throw(URIError)
        ELSE IF Utf8Encode(text) # octets THEN Throw(URIError)
        ELSE DecodeFrom(str, at + (3 * n), plain \o text)

\* index.ts decode(str): decodeURIComponent only when there is a '%'
decode(str) ==
    IF \E i \in 1..Len(str) : str[i] = 37 THEN DecodeFrom(str, 1, <<>>)
    ELSE Ok(str)

(***************************************************************************)
(* util.ts: serializeCookie and getCookieOptions (the same text in the     *)
(* node:crypto and the WebCrypto version).  Optional values: a number is   *)
(* <<n>>, NaN is NaN, and <<>> stands for undefined (and for '', which     *)
(* every test of these functions treats alike); `true` given where a       *)
(* string is expected is True.                                             *)
(***************************************************************************)
NaN == <<0, 0>>
True == <<-2>>

\* the same test with * for +: the empty string passes
fieldContentOrEmpty(str) ==
    \A i \in 1..Len(str) :
        str[i] = 9 \/ (str[i] >= 32 /\ str[i] <= 126)
                  \/ (str[i] >= 128 /\ str[i] <= 255)

\* fieldContentRegExp.test(str): /^[\u0009 -~\u0080-ÿ]+$/
fieldContentRegExp(str) ==
    /\ str # <<>>
    /\ \A i \in 1..Len(str) :
          \/ str[i] = 9
          \/ str[i] >= 32 /\ str[i] <= 126
          \/ str[i] >= 128 /\ str[i] <= 255

\* String(n) for an integer n
RECURSIVE DecimalString(_)
DecimalString(n) ==
    IF n < 0 THEN <<45>> \o DecimalString(-n)
    ELSE IF n < 10 THEN <<48 + n>>
    ELSE DecimalString(n \div 10) \o <<48 + (n % 10)>>

\* str.toLowerCase(), for the letters A-Z
ToLowerCase(str) ==
    [i \in 1..Len(str) |-> IF str[i] >= 65 /\ str[i] <= 90 THEN str[i] + 32
                           ELSE str[i]]

\* two decimal digits
TwoDigits(n) == <<48 + (n \div 10), 48 + (n % 10)>>

\* date.toUTCString() for a Date of the year 1970, given as the whole
\* seconds since the epoch: 'Thu, 01 Jan 1970 00:00:00 GMT'
toUTCString(t) ==
    LET day == t \div 86400
        sec == t % 86400
        dayNames == <<<<83, 117, 110>>, <<77, 111, 110>>, <<84, 117, 101>>,
                      <<87, 101, 100>>, <<84, 104, 117>>, <<70, 114, 105>>,
                      <<83, 97, 116>>>>
        monthNames == <<<<74, 97, 110>>, <<70, 101, 98>>, <<77, 97, 114>>, <<65, 112, 114>>,
                        <<77, 97, 121>>, <<74, 117, 110>>, <<74, 117, 108>>, <<65, 117, 103>>,
                        <<83, 101, 112>>, <<79, 99, 116>>, <<78, 111, 118>>, <<68, 101, 99>>>>
        monthStart == <<0, 31, 59, 90, 120, 151, 181, 212, 243, 273, 304, 334, 365>>
        month == CHOOSE m \in 1..12 : monthStart[m] <= day /\ day < monthStart[m + 1]
    IN  dayNames[((4 + day) % 7) + 1] \o <<44, 32>>
        \o TwoDigits(day - monthStart[month] + 1) \o <<32>>
        \o monthNames[month] \o <<32, 49, 57, 55, 48, 32>>
        \o TwoDigits(sec \div 3600) \o <<58>> \o TwoDigits((sec \div 60) % 60)
        \o <<58>> \o TwoDigits(sec % 60) \o <<32, 71, 77, 84>>

\* no options: serializeCookie(name, val)
NoOptions ==
    [encode |-> "default", maxAge |-> <<>>, domain |-> <<>>, path |-> <<>>,
     expires |-> <<>>, httpOnly |-> FALSE, secure |-> FALSE,
     partitioned |-> FALSE, priority |-> <<>>, sameSite |-> <<>>]

\* the string literals of index.ts and util.ts
Text ==
    [
      \* '; Max-Age='
      maxAge |->
          <<59, 32, 77, 97, 120, 45, 65, 103, 101, 61>>,
      \* '; Domain='
      domain |->
          <<59, 32, 68, 111, 109, 97, 105, 110, 61>>,
      \* '; Path='
      path |->
          <<59, 32, 80, 97, 116, 104, 61>>,
      \* '; Expires='
      expires |->
          <<59, 32, 69, 120, 112, 105, 114, 101, 115, 61>>,
      \* '; HttpOnly'
      httpOnly |->
          <<59, 32, 72, 116, 116, 112, 79, 110, 108, 121>>,
      \* '; Secure'
      secure |->
          <<59, 32, 83, 101, 99, 117, 114, 101>>,
      \* '; Partitioned'
      partitioned |->
          <<59, 32, 80, 97, 114, 116, 105, 116, 105, 111, 110, 101, 100>>,
      \* '; Priority=Low'
      priorityLow |->
          <<59, 32, 80, 114, 105, 111, 114, 105, 116, 121, 61, 76, 111, 119>>,
      \* '; Priority=Medium'
      priorityMedium |->
          <<59, 32, 80, 114, 105, 111, 114, 105, 116, 121, 61, 77, 101, 100, 105, 117, 109>>,
      \* '; Priority=High'
      priorityHigh |->
          <<59, 32, 80, 114, 105, 111, 114, 105, 116, 121, 61, 72, 105, 103, 104>>,
      \* '; SameSite=Strict'
      sameSiteStrict |->
          <<59, 32, 83, 97, 109, 101, 83, 105, 116, 101, 61, 83, 116, 114, 105, 99, 116>>,
      \* '; SameSite=Lax'
      sameSiteLax |->
          <<59, 32, 83, 97, 109, 101, 83, 105, 116, 101, 61, 76, 97, 120>>,
      \* '; SameSite=None'
      sameSiteNone |->
          <<59, 32, 83, 97, 109, 101, 83, 105, 116, 101, 61, 78, 111, 110, 101>>,
      \* 'low'
      low |->
          <<108, 111, 119>>,
      \* 'medium'
      medium |->
          <<109, 101, 100, 105, 117, 109>>,
      \* 'high'
      high |->
          <<104, 105, 103, 104>>,
      \* 'lax'
      lax |->
          <<108, 97, 120>>,
      \* 'strict'
      strict |->
          <<115, 116, 114, 105, 99, 116>>,
      \* 'none'
      none |->
          <<110, 111, 110, 101>>,
      \* 'Strict'
      Strict |->
          <<83, 116, 114, 105, 99, 116>>,
      \* 'Lax'
      Lax |->
          <<76, 97, 120>>,
      \* 'None'
      None |->
          <<78, 111, 110, 101>>,
      \* 'set-cookie': the name 'Set-Cookie' as a header list keeps it
      setCookie |->
          <<115, 101, 116, 45, 99, 111, 111, 107, 105, 101>>,
      \* 'content-type'
      contentType |->
          <<99, 111, 110, 116, 101, 110, 116, 45, 116, 121, 112, 101>>,
      \* '=deleted; path=/; expires=Thu, 01 Jan 1970 00:00:00 GMT'
      deleted |->
          <<61, 100, 101, 108, 101, 116, 101, 100, 59, 32, 112, 97, 116, 104, 61, 47, 59, 32, 101, 120, 112, 105, 114, 101, 115, 61, 84, 104, 117, 44, 32, 48, 49, 32, 74, 97, 110, 32, 49, 57, 55, 48, 32, 48, 48, 58, 48, 48, 58, 48, 48, 32, 71, 77, 84>> ]

\* the text each option adds to the cookie ('' when it adds none)
AttributeParts(opts) ==
    LET priority == ToLowerCase(opts.priority)
        sameSite == IF opts.sameSite = True THEN True
                    ELSE ToLowerCase(opts.sameSite)
    IN  [maxAge |-> IF opts.maxAge # <<>>
                    THEN Text.maxAge
                         \o DecimalString(opts.maxAge[1])
                    ELSE <<>>,
         domain |-> IF opts.domain # <<>>
                    THEN Text.domain \o opts.domain
                    ELSE <<>>,
         path |-> IF opts.path # <<>>
                  THEN Text.path \o opts.path
                  ELSE <<>>,
         expires |-> IF opts.expires # <<>>
                     THEN Text.expires
                          \o toUTCString(opts.expires[1])
                     ELSE <<>>,
         httpOnly |-> IF opts.httpOnly
                      THEN Text.httpOnly
                      ELSE <<>>,
         secure |-> IF opts.secure THEN Text.secure ELSE <<>>,
         partitioned |-> IF opts.partitioned
                         THEN Text.partitioned
                         ELSE <<>>,
         priority |-> IF priority = Text.low
                      THEN Text.priorityLow
                      ELSE IF priority = Text.medium
                      THEN Text.priorityMedium
                      ELSE IF priority = Text.high
                      THEN Text.priorityHigh
                      ELSE <<>>,
         sameSite |-> IF sameSite \in {True, Text.strict}
                      THEN Text.sameSiteStrict
                      ELSE IF sameSite = Text.lax
                      THEN Text.sameSiteLax
                      ELSE IF sameSite = Text.none
                      THEN Text.sameSiteNone
                      ELSE <<>>]

\* the attributes appended in the alphabetical order of the option names
AppendSorted(p) ==
    p.domain \o p.expires \o p.httpOnly \o p.maxAge \o p.partitioned \o p.path
    \o p.priority \o p.sameSite \o p.secure

\* the order of the `cookie += ...` statements
AppendInOrder(p) ==
    p.maxAge \o p.domain \o p.path \o p.expires \o p.httpOnly \o p.secure
    \o p.partitioned \o p.priority \o p.sameSite

\* serializeCookie(name, val, opts)
serializeCookie(name, val, opts) ==
    LET value == IF opts.encode = "default" THEN encode(val) ELSE Ok(val)
        priority == ToLowerCase(opts.priority)
        sameSite == IF opts.sameSite = True THEN True
                    ELSE ToLowerCase(opts.sameSite)
    IN  IF opts.encode = "invalid" THEN Throw(TypeError)
        ELSE IF ~fieldContentRegExp(name) THEN Throw(TypeError)
        ELSE IF value.threw THEN value
        ELSE IF value.val # <<>> /\ ~fieldContentRegExp(value.val)
             THEN Throw(TypeError)
        ELSE IF opts.maxAge = NaN THEN Throw(TypeError)
        ELSE IF opts.domain # <<>> /\ ~fieldContentRegExp(opts.domain)
             THEN Throw(TypeError)
        ELSE IF opts.path # <<>> /\ ~fieldContentRegExp(opts.path)
             THEN Throw(TypeError)
        ELSE IF opts.expires = NaN THEN Throw(TypeError)
        ELSE IF /\ opts.priority # <<>>
                /\ priority \notin {Text.low, Text.medium, Text.high}
             THEN Throw(TypeError)
        ELSE IF /\ opts.sameSite # <<>>
                /\ sameSite \notin {True, Text.lax, Text.strict, Text.none}
             THEN Throw(TypeError)
        ELSE Ok(name \o <<61>> \o value.val \o AppendInOrder(AttributeParts(opts)))

\* WhiteSpace and LineTerminator, as String.prototype.trim and parseInt
\* skip them
IsWhiteSpace(c) ==
    \/ c \in {9, 10, 11, 12, 13, 32, 160, 5760, 8232, 8233, 8239, 8287, 12288,
              65279}
    \/ c >= 8192 /\ c <= 8202

\* the digits of str from i on in the given radix, as a number: <<n>>, or
\* NaN when there is none
RECURSIVE DigitsFrom(_, _, _, _)
DigitsFrom(str, i, radix, acc) ==
    IF i <= Len(str) /\ HexVal(str[i]) # -1 /\ HexVal(str[i]) < radix
    THEN DigitsFrom(str, i + 1, radix, <<((IF acc = NaN THEN 0 ELSE acc[1]) * radix)
                                          + HexVal(str[i])>>)
    ELSE acc

\* parseInt(str): white space, a sign, 0x for hexadecimal, then digits;
\* parseInt(undefined) is NaN
RECURSIVE parseInt(_)
parseInt(str) ==
    IF str # <<>> /\ IsWhiteSpace(str[1]) THEN parseInt(Tail(str))
    ELSE LET signed == str # <<>> /\ str[1] \in {43, 45}
             body == IF signed THEN Tail(str) ELSE str
             hex == Len(body) >= 2 /\ body[1] = 48 /\ body[2] \in {120, 88}
             n == IF hex THEN DigitsFrom(body, 3, 16, NaN)
                  ELSE DigitsFrom(body, 1, 10, NaN)
         IN  IF n # NaN /\ signed /\ str[1] = 45 THEN <<-(n[1])>> ELSE n

COOKIE_MAX_AGE_SPAN_DEFAULT == 60 * 60 * 24 * 7

\* env = {}: no variable is set
NoCookieEnv ==
    [COOKIE_HTTPONLY |-> <<>>, COOKIE_SECURE |-> <<>>, COOKIE_SAMESITE |-> <<>>,
     COOKIE_MAX_AGE_SPAN |-> <<>>, COOKIE_DOMAIN |-> <<>>, COOKIE_PATH |-> <<>>]

\* getCookieOptions(env)
getCookieOptions(cenv) ==
    [NoOptions EXCEPT
        !.httpOnly = cenv.COOKIE_HTTPONLY # <<48>>,
        !.secure = cenv.COOKIE_SECURE # <<48>>,
        !.sameSite = IF cenv.COOKIE_SAMESITE \in {Text.Strict, Text.Lax, Text.None}
                     THEN ToLowerCase(cenv.COOKIE_SAMESITE)
                     ELSE Text.lax,
        !.maxAge = IF parseInt(cenv.COOKIE_MAX_AGE_SPAN) # NaN
                   THEN parseInt(cenv.COOKIE_MAX_AGE_SPAN)
                   ELSE <<COOKIE_MAX_AGE_SPAN_DEFAULT>>,
        !.domain = cenv.COOKIE_DOMAIN,
        !.path = IF cenv.COOKIE_PATH # <<>> THEN cenv.COOKIE_PATH ELSE <<47>>]

(***************************************************************************)
(* index.ts: createCookie and parseCookie (the same text in both           *)
(* implementations, apart from the await in createCookie).                 *)
(***************************************************************************)
\* 'session'
SESSION_COOKIE_NAME_DEFAULT == <<115, 101, 115, 115, 105, 111, 110>>

\* createCookie(sessionData, secretKey, name, env); an omitted name is <<>>
createCookie(impl, sessionData, secretKey, name, cenv) ==
    LET session == createSession(impl, sessionData, secretKey)
    IN  IF session.threw THEN session
        ELSE serializeCookie(
                 IF name # <<>> THEN name ELSE SESSION_COOKIE_NAME_DEFAULT,
                 session.val,
                 getCookieOptions(cenv))

\* str.split(sep) for a one-character separator, from the code unit at
\* start on
RECURSIVE Split(_, _, _)
Split(str, sep, start) ==
    LET at == IndexFrom(str, sep, start)
    IN  IF at > Len(str) THEN <<SubSeq(str, start, Len(str))>>
        ELSE <<SubSeq(str, start, at - 1)>> \o Split(str, sep, at + 1)

\* str.trim()
RECURSIVE Trim(_)
Trim(str) ==
    IF str # <<>> /\ IsWhiteSpace(str[1]) THEN Trim(Tail(str))
    ELSE IF str # <<>> /\ IsWhiteSpace(str[Len(str)])
         THEN Trim(SubSeq(str, 1, Len(str) - 1))
    ELSE str

\* a tryDecode that returns its input as it is
tryDecodeNothing(str) == str

\* tryDecode(str, decode) for a string: the input when decode throws
tryDecode(str) == IF decode(str).threw THEN str ELSE decode(str).val

\* the reduce of parseCookie over the split segments from the i-th on;
\* val[1] is undefined when the segment has no '=', and
\* `tryDecode(undefined) ?? true` is true
RECURSIVE ReduceSegments(_, _, _)
ReduceSegments(segments, i, acc) ==
    IF i > Len(segments) THEN acc
    ELSE LET val == Split(Trim(segments[i]), 61, 1)
         IN  ReduceSegments(segments, i + 1,
                 SetProp(acc, val[1],
                         IF Len(val) < 2 THEN True ELSE tryDecode(val[2])))

\* parseCookie(cookie), with the default decode
parseCookie(cookie) ==
    ReduceSegments(Split(cookie, 59, 1), 1,
                   << <<SESSION_COOKIE_NAME_DEFAULT, <<>>>> >>)

(***************************************************************************)
(* Inputs of the model.  Strings are written as character codes:           *)
(*   "  34   ?  63   =  61   A  65   Q  81   a  97   b  98   g 103         *)
(***************************************************************************)
\* session data objects, as the caller builds them
DataList ==
    << <<>>,                                   \* {}
       << <<<<97>>, <<98>>>> >>,               \* { a: 'b' }
       << <<<<97>>, <<65533>>>> >>,            \* { a: '�' }
       << <<<<97>>, <<>>>>, <<<<>>, <<>>>> >>, \* { a: '', '': '' }
       << <<<<>>, <<63>>>> >>,                 \* { '': '?' }
       << <<<<97>>, <<34>>>> >>,               \* { a: '"' }
       << <<<<>>, <<65533>>>> >> >>            \* { '': '�' }

\* how many of them the model draws from
NumData == 6

SessionData == {DataList[i] : i \in 1..NumData}

\* secret keys, as the strings the caller passes
KeyList ==
    << <<65, 81>>,            \* 'AQ'    base64 of the byte 01
       <<65, 81, 61, 61>>,    \* 'AQ=='  the same byte, padded spelling
       <<65, 81, 65>>,        \* 'AQA'   base64 of the bytes 01 00
       <<65, 103>>,           \* 'Ag'    base64 of the byte 02
       <<>>,                  \* ''      no key bytes at all
       <<65, 32, 81>>,        \* 'A Q'   not base64
       <<65, 81, 0>>,         \* 'AQ\0'  'AQ' followed by U+0000
       <<65, 103, 61, 61>> >> \* 'Ag=='

\* how many of them the model draws from
NumKeys == 7

SecretKeys == {KeyList[i] : i \in 1..NumKeys}

\* the random keys timeSafeCompare may draw for one comparison
EphemeralKeys == {<<7>>, <<200, 3>>}

\* the build of uint8arrays each implementation can run on: the sync
\* implementation needs node:crypto, the async one runs on both
Envs(i) == IF i = "sync" THEN {"node"} ELSE {"node", "web"}

\* all orders in which the properties of obj can have been inserted
Orders(obj) ==
    {o \in [1..Len(obj) -> {obj[i] : i \in 1..Len(obj)}] :
        \A i, j \in 1..Len(obj) : i # j => o[i] # o[j]}

(***************************************************************************)
(* What a client can do to a token before it sends it back.                *)
(***************************************************************************)
\* characters a client may write over one character of the token:
\* '8', 'w' (base64), '=' (padding), '!' (not base64)
ReplaceChars == {56, 119, 61, 33}

\* the longest text put in front of a token
MaxPrefix == 3

\* characters such a text is made of: 'a', '-', '='
PrefixChars == {97, 45, 61}

Prefixes == UNION {[1..n -> PrefixChars] : n \in 1..MaxPrefix}

Repeat(c, n) == [i \in 1..n |-> c]

\* tokens that no createSession call produced
InjectedTokens ==
    { <<>>,                                        \* '' (no cookie)
      <<97, 98, 99>>,                              \* 'abc'
      Repeat(65, 43),                              \* 43 x 'A'
      Repeat(65, 43) \o <<33>>,                    \* ... then '!'
      Repeat(65, 43) \o <<65>>,                    \* ... then 'A'
      Repeat(65, 43) \o <<101, 51, 48>>,           \* ... then 'e30'  ({})
      Repeat(65, 43) \o <<55, 55, 117, 47, 101, 51, 48>> }
                                                   \* ... '77u/e30' (BOM {})

(***************************************************************************)
(* State: one session token from its creation to its use.                  *)
(***************************************************************************)
VARIABLES
    impl,       \* "sync" or "async": which implementation runs
    env,        \* "node" or "web": which build of uint8arrays runs
    data,       \* the session data passed to createSession
    key,        \* the secret key passed to createSession
    phase,      \* "start", "failed", "issued", "reissued", "presented",
                \* "verified", "parsed"
    issued,     \* the token createSession returned (<<>> before)
    reordered,  \* the same data, as inserted for the second createSession
    reissued,   \* the token the second createSession returned
    edit,       \* what was done to the token: [kind, at]
    presented,  \* the token handed to verifySessionString / parseSession
    vkey,       \* the key handed to verifySessionString
    ok,         \* what verifySessionString returned: [threw, val]
    parsed,     \* what parseSession returned: [threw, val]
    cmp,        \* one call of timeSafeCompare: [phase, a, b, rk, result]
    calls,      \* the calls under way at once: call -> [op, data, session,
                \* key, pc, awaited, equal, result]
    frames,     \* the local bindings of each activation: frame -> record
    cphase,     \* "idle", "start", "failed", "cookie", "parsed", "verified"
    cargs,      \* the call that made the cookie: [fn, name, val, opts, cenv]
    cookie,     \* what createCookie / serializeCookie returned: [threw, val]
    fields,     \* what parseCookie returned
    heap,       \* the Headers instances there are: reference -> [guard, list]
    hcall       \* the last call of setCookie / rmCookie: [fn, cookie, h,
                \* name, was, size, result]

vars == <<impl, env, data, key, phase, issued, reordered, reissued, edit,
          presented, vkey, ok, parsed, cmp, calls, frames, cphase, cargs,
          cookie, fields, heap, hcall>>

tokenVars == <<impl, env, data, key, phase, issued, reordered, reissued, edit,
               presented, vkey, ok, parsed>>

compareVars == <<cmp>>

callVars == <<calls, frames>>

cookieVars == <<cphase, cargs, cookie, fields>>

headerVars == <<heap, hcall>>

\* the state outside the life of a session token
outsideToken == <<compareVars, callVars, cookieVars, headerVars>>

\* the state outside a call of timeSafeCompare
outsideCompare == <<tokenVars, callVars, cookieVars, headerVars>>

\* the state outside the concurrent calls
outsideCalls == <<tokenVars, compareVars, cookieVars, headerVars>>

\* no call of timeSafeCompare is under way
NoCompare == [phase |-> "idle", a |-> <<>>, b |-> <<>>, rk |-> <<>>,
              result |-> FALSE]

NoEdit == [kind |-> "none", at |-> 0]

\* no concurrent calls are under way
NoCalls == calls = <<>> /\ frames = <<>>

\* no cookie is being made or parsed
NoCookie ==
    /\ cphase = "idle"
    /\ cargs = [fn |-> "none"]
    /\ cookie = Ok(<<>>)
    /\ fields = <<>>

\* no call of setCookie / rmCookie has been made
NoHeaderCall == [fn |-> "none"]

\* there are no Headers instances
NoHeaders == heap = <<>> /\ hcall = NoHeaderCall

Init ==
    /\ impl \in {"sync", "async"}
    /\ env \in Envs(impl)
    /\ data \in SessionData
    /\ key \in SecretKeys
    /\ phase = "start"
    /\ issued = <<>>
    /\ reordered = <<>>
    /\ reissued = <<>>
    /\ edit = NoEdit
    /\ presented = <<>>
    /\ vkey = <<>>
    /\ ok = Ok(FALSE)
    /\ parsed = Ok(<<>>)
    /\ cmp = NoCompare
    /\ NoCalls
    /\ NoCookie
    /\ NoHeaders

\* const session = await createSession(data, key)
CreateSession ==
    /\ phase = "start"
    /\ LET r == createSession(impl, data, key)
       IN  /\ phase' = IF r.threw THEN "failed" ELSE "issued"
           /\ issued' = r.val
    /\ UNCHANGED <<impl, env, data, key, reordered, reissued, edit, presented,
                   vkey, ok, parsed>>
    /\ UNCHANGED outsideToken

\* a second createSession with the same key, on an object holding the same
\* properties inserted in another order
CreateSessionAgain ==
    /\ phase = "issued"
    /\ \E o \in Orders(data) :
          /\ reordered' = o
          /\ reissued' = createSession(impl, o, key).val
    /\ phase' = "reissued"
    /\ UNCHANGED <<impl, env, data, key, issued, edit, presented, vkey, ok,
                   parsed>>
    /\ UNCHANGED outsideToken

\* the client sends the token back as it got it
PresentToken ==
    /\ phase = "issued"
    /\ presented' = issued
    /\ edit' = NoEdit
    /\ phase' = "presented"
    /\ UNCHANGED <<impl, env, data, key, issued, reordered, reissued, vkey, ok,
                   parsed>>
    /\ UNCHANGED outsideToken

\* the client overwrites one character of the token with another one
ReplaceCharacter ==
    /\ phase = "issued"
    /\ \E i \in 1..Len(issued), c \in ReplaceChars :
          /\ c # issued[i]
          /\ presented' = [issued EXCEPT ![i] = c]
          /\ edit' = [kind |-> "replace", at |-> i]
    /\ phase' = "presented"
    /\ UNCHANGED <<impl, env, data, key, issued, reordered, reissued, vkey, ok,
                   parsed>>
    /\ UNCHANGED outsideToken

\* the client puts extra characters in front of the token
PrefixToken ==
    /\ phase = "issued"
    /\ \E p \in Prefixes :
          /\ presented' = p \o issued
          /\ edit' = [kind |-> "prefix", at |-> Len(p)]
    /\ phase' = "presented"
    /\ UNCHANGED <<impl, env, data, key, issued, reordered, reissued, vkey, ok,
                   parsed>>
    /\ UNCHANGED outsideToken

\* the client sends a string that is no token of this server
InjectToken ==
    /\ phase = "start"
    /\ \E t \in InjectedTokens :
          /\ presented' = t
          /\ edit' = [kind |-> "inject", at |-> 0]
    /\ phase' = "presented"
    /\ UNCHANGED <<impl, env, data, key, issued, reordered, reissued, vkey, ok,
                   parsed>>
    /\ UNCHANGED outsideToken

\* const ok = await verifySessionString(presented, k); an unedited token
\* is also checked under every other key, an edited one under the key of
\* the server that issued it
VerifySessionString ==
    /\ phase = "presented"
    /\ \E k \in SecretKeys, rk \in EphemeralKeys :
          /\ edit.kind = "none" \/ k = key
          /\ vkey' = k
          /\ ok' = verifySessionString(impl, env, presented, k, rk)
    /\ phase' = "verified"
    /\ UNCHANGED <<impl, env, data, key, issued, reordered, reissued, edit,
                   presented, parsed>>
    /\ UNCHANGED outsideToken

\* const session = parseSession(presented), whatever the verification said
ParseSession ==
    /\ phase = "verified"
    /\ parsed' = parseSession(impl, env, presented)
    /\ phase' = "parsed"
    /\ UNCHANGED <<impl, env, data, key, issued, reordered, reissued, edit,
                   presented, vkey, ok>>
    /\ UNCHANGED outsideToken

\* tokens that come back unchanged
Next ==
    \/ CreateSession
    \/ CreateSessionAgain
    \/ PresentToken
    \/ VerifySessionString
    \/ ParseSession

Spec == Init /\ [][Next]_vars

\* tokens that come back edited, or made up
NextClient ==
    \/ CreateSession
    \/ PresentToken
    \/ ReplaceCharacter
    \/ PrefixToken
    \/ InjectToken
    \/ VerifySessionString
    \/ ParseSession

SpecClient == Init /\ [][NextClient]_vars

(***************************************************************************)
(* timeSafeCompare called on its own.                                      *)
(***************************************************************************)
\* the strings compared: '', 'a', 'b', 'ab', 'a\0', 'é', U+FFFD, and the
\* lone surrogates U+D800 and U+DC00
CompareStrings ==
    { <<>>, <<97>>, <<98>>, <<97, 98>>, <<97, 0>>, <<233>>, <<65533>>,
      <<55296>>, <<56320>> }

\* no session token is in play
NoToken ==
    /\ data = <<>>
    /\ key = <<>>
    /\ phase = "idle"
    /\ issued = <<>>
    /\ reordered = <<>>
    /\ reissued = <<>>
    /\ edit = NoEdit
    /\ presented = <<>>
    /\ vkey = <<>>
    /\ ok = Ok(FALSE)
    /\ parsed = Ok(<<>>)

InitCompare ==
    /\ impl \in {"sync", "async"}
    /\ env \in Envs(impl)
    /\ NoToken
    /\ \E a \in CompareStrings, b \in CompareStrings, rk \in EphemeralKeys :
          cmp = [phase |-> "start", a |-> a, b |-> b, rk |-> rk,
                 result |-> FALSE]
    /\ NoCalls
    /\ NoCookie
    /\ NoHeaders

\* const equal = await timeSafeCompare(a, b)
TimeSafeCompare ==
    /\ cmp.phase = "start"
    /\ cmp' = [cmp EXCEPT !.phase = "done",
                          !.result = compare(impl, cmp.a, cmp.b, cmp.rk)]
    /\ UNCHANGED outsideCompare

NextCompare == TimeSafeCompare

SpecCompare == InitCompare /\ [][NextCompare]_vars

(***************************************************************************)
(* Calls of the async implementation that are under way at once.  A call   *)
(* runs until its next `await`, where it gives way to any other call; what *)
(* it awaits is held by the runtime (`awaited`, `equal`), what it keeps in *)
(* its own constants and parameters is in the frame of its activation.     *)
(***************************************************************************)
\* how many calls are under way at once
NumCalls == 2

Calls == 1..NumCalls

\* the token createSession returns for { a: 'b' } under the key 'AQ'
TokenAB == createSession("async", DataList[2], KeyList[1]).val

\* the calls made, with their arguments
CallArgs ==
    { [op |-> "createSession", data |-> DataList[2], session |-> <<>>,
       key |-> KeyList[1]],
      [op |-> "createSession", data |-> DataList[1], session |-> <<>>,
       key |-> KeyList[1]],
      [op |-> "createSession", data |-> DataList[2], session |-> <<>>,
       key |-> KeyList[5]],                      \* '': importKey rejects
      [op |-> "createSession", data |-> DataList[2], session |-> <<>>,
       key |-> KeyList[6]],                      \* 'A Q': fromString throws
      [op |-> "verifySessionString", data |-> <<>>, session |-> TokenAB,
       key |-> KeyList[1]],
      [op |-> "verifySessionString", data |-> <<>>, session |-> TokenAB,
       key |-> KeyList[4]],                      \* another key
      [op |-> "verifySessionString", data |-> <<>>,
       session |-> TokenAB \o <<33>>, key |-> KeyList[1]] }

\* the bindings of an activation before it ran
NoFrame ==
    [data |-> <<>>, base64Json |-> <<>>, signature |-> <<>>, bufA |-> <<>>,
     bufB |-> <<>>, key |-> <<>>, hmac |-> <<>>]

\* one set of bindings at module level, shared by all calls
FrameShared(c) == 1

\* every activation has its own bindings (const / parameters of a function)
FrameOf(c) == c

Local(c) == frames[FrameOf(c)]

InitCalls ==
    /\ impl = "async"
    /\ env = "node"
    /\ NoToken
    /\ cmp = NoCompare
    /\ calls \in [Calls -> {[op |-> a.op, data |-> a.data, session |-> a.session,
                             key |-> a.key, pc |-> "start", awaited |-> <<>>,
                             equal |-> FALSE, result |-> Ok(FALSE)] :
                            a \in CallArgs}]
    /\ frames = [c \in Calls |-> NoFrame]
    /\ NoCookie
    /\ NoHeaders

\* the call settles: its promise resolves with a value or rejects
Finish(c, r) ==
    /\ calls' = [calls EXCEPT ![c].pc = "done", ![c].result = r]
    /\ UNCHANGED frames

\* what a failure inside sign() becomes: createSession rejects,
\* verifySessionString catches it and returns false
Failure(c) ==
    IF calls[c].op = "createSession" THEN Throw(<<>>) ELSE Ok(FALSE)

\* the call runs from its start to `await webcrypto.subtle.importKey(...)`
\* in sign()
Begin(c) ==
    /\ calls[c].pc = "start"
    /\ LET a == calls[c]
           isCreate == a.op = "createSession"
           signature == Substring(a.session, 0, SIGNATURE_DIGEST_LENGTH(impl))
           arr == FromBase64(Substring(a.session, SIGNATURE_DIGEST_LENGTH(impl),
                                       Len(a.session)))
           bytes == IF isCreate THEN Utf8Encode(stringify(a.data))
                    ELSE Utf8Encode(Utf8Decode(env, arr.val))
           raw == FromBase64(a.key)
       IN  IF ~isCreate /\ arr.threw THEN Finish(c, Ok(FALSE))
           ELSE IF raw.threw THEN Finish(c, Failure(c))
           ELSE /\ calls' = [calls EXCEPT ![c].pc = "importKey",
                                          ![c].awaited = raw.val]
                /\ frames' = [frames EXCEPT ![FrameOf(c)] =
                       [@ EXCEPT !.data = bytes,
                                 !.base64Json = IF isCreate THEN ToBase64(bytes)
                                                ELSE <<>>,
                                 !.signature = IF isCreate THEN <<>>
                                               ELSE signature]]
    /\ UNCHANGED outsideCalls

\* importKey settles; sign() goes on to `await webcrypto.subtle.sign(...)`
ImportKeyDone(c) ==
    /\ calls[c].pc = "importKey"
    /\ IF calls[c].awaited = <<>>
       THEN Finish(c, Failure(c))
       ELSE /\ calls' = [calls EXCEPT
                   ![c].pc = "sign",
                   ![c].awaited = Hmac("sha256", calls[c].awaited, Local(c).data)]
            /\ UNCHANGED frames
    /\ UNCHANGED outsideCalls

\* subtle.sign settles; createSession returns sig + base64Json,
\* verify goes on into compare() up to `await subtle.generateKey(...)`
SignDone(c) ==
    /\ calls[c].pc = "sign"
    /\ LET sig == UrlSafe(ToBase64(calls[c].awaited))
       IN  IF calls[c].op = "createSession"
           THEN Finish(c, Ok(sig \o Local(c).base64Json))
           ELSE /\ calls' = [calls EXCEPT ![c].pc = "generateKey"]
                /\ frames' = [frames EXCEPT ![FrameOf(c)] =
                       [@ EXCEPT !.bufA = Utf8Encode(Local(c).signature),
                                 !.bufB = Utf8Encode(sig)]]
    /\ UNCHANGED outsideCalls

\* generateKey settles; compare() goes on to `await subtle.sign(key, bufA)`
GenerateKeyDone(c) ==
    /\ calls[c].pc = "generateKey"
    /\ \E rk \in EphemeralKeys :
          /\ frames' = [frames EXCEPT ![FrameOf(c)] = [@ EXCEPT !.key = rk]]
          /\ calls' = [calls EXCEPT
                 ![c].pc = "compareSign",
                 ![c].awaited = Hmac("sha256", rk, Local(c).bufA)]
    /\ UNCHANGED outsideCalls

\* subtle.sign settles; compare() goes on to
\* `await subtle.verify(algorithm, key, hmac, bufB)`
CompareSignDone(c) ==
    /\ calls[c].pc = "compareSign"
    /\ frames' = [frames EXCEPT ![FrameOf(c)] = [@ EXCEPT !.hmac = calls[c].awaited]]
    /\ calls' = [calls EXCEPT
           ![c].pc = "compareVerify",
           ![c].equal = (calls[c].awaited
                            = Hmac("sha256", Local(c).key, Local(c).bufB))]
    /\ UNCHANGED outsideCalls

\* subtle.verify settles; compare, verify and verifySessionString return
CompareVerifyDone(c) ==
    /\ calls[c].pc = "compareVerify"
    /\ Finish(c, Ok(calls[c].equal))
    /\ UNCHANGED outsideCalls

NextCalls ==
    \/ \E c \in Calls : Begin(c)
    \/ \E c \in Calls : ImportKeyDone(c)
    \/ \E c \in Calls : SignDone(c)
    \/ \E c \in Calls : GenerateKeyDone(c)
    \/ \E c \in Calls : CompareSignDone(c)
    \/ \E c \in Calls : CompareVerifyDone(c)

SpecCalls == InitCalls /\ [][NextCalls]_vars

(***************************************************************************)
(* Cookies: a cookie string is made by createCookie or serializeCookie, or *)
(* comes in as a header, is parsed by parseCookie, and the session token   *)
(* found in it is verified.                                                *)
(***************************************************************************)
\* the name argument of createCookie: omitted, 'sid', 'Path', 's\n'
CookieNames == { <<>>, <<115, 105, 100>>, <<80, 97, 116, 104>>, <<115, 10>> }

\* the env argument of createCookie
CookieEnvs ==
    { NoCookieEnv,
      [COOKIE_HTTPONLY |-> <<48>>,                       \* '0'
       COOKIE_SECURE |-> <<48>>,                         \* '0'
       COOKIE_SAMESITE |-> Text.Strict,
       COOKIE_MAX_AGE_SPAN |-> <<51, 54, 48, 48>>,   \* '3600'
       COOKIE_DOMAIN |-> <<97, 46, 98>>,                 \* 'a.b'
       COOKIE_PATH |-> <<47, 97, 112, 112>>],             \* '/app'
      [COOKIE_HTTPONLY |-> <<49>>,                       \* '1'
       COOKIE_SECURE |-> <<>>,
       COOKIE_SAMESITE |-> Text.lax,                     \* 'lax': not in the list
       COOKIE_MAX_AGE_SPAN |-> <<119, 101, 101, 107>>,  \* 'week'
       COOKIE_DOMAIN |-> <<>>,
       COOKIE_PATH |-> <<>>] }

\* the name argument of serializeCookie: 'session', '', 'a b', 'n\n', 'é',
\* U+0100
SerializeNames ==
    { SESSION_COOKIE_NAME_DEFAULT, <<>>, <<97, 32, 98>>, <<110, 10>>, <<233>>,
      <<256>> }

\* the val argument of serializeCookie: 'abc', '', 'a;=é', 'a\n', a lone
\* surrogate
SerializeValues ==
    { <<97, 98, 99>>, <<>>, <<97, 59, 61, 233>>, <<97, 10>>, <<55296>> }

\* the opts argument of serializeCookie
SerializeOptions ==
    { NoOptions,
      getCookieOptions(NoCookieEnv),
      [NoOptions EXCEPT !.encode = "identity"],
      [NoOptions EXCEPT !.encode = "invalid"],
      [encode |-> "default", maxAge |-> <<0>>, domain |-> <<97, 46, 98>>,
       path |-> <<47>>, expires |-> <<0>>, httpOnly |-> TRUE, secure |-> TRUE,
       partitioned |-> TRUE, priority |-> <<72, 105, 103, 104>>,
       sameSite |-> True],
      [NoOptions EXCEPT !.sameSite = Text.None, !.priority = Text.low,
                        !.expires = <<(86400 * 31) + 3723>>],
      [NoOptions EXCEPT !.secure = TRUE, !.priority = Text.medium,
                        !.sameSite = Text.strict],
      [NoOptions EXCEPT !.priority = <<117, 114, 103, 101, 110, 116>>],
      [NoOptions EXCEPT !.sameSite = <<98, 97, 100>>],
      [NoOptions EXCEPT !.maxAge = NaN],
      [NoOptions EXCEPT !.expires = NaN],
      [NoOptions EXCEPT !.domain = <<97, 10>>] }

\* header values that come in from outside
CookieHeaders ==
    { \* 'session=abc; Max-Age=604800; Path=/; HttpOnly; Secure; SameSite=Lax'
      <<115, 101, 115, 115, 105, 111, 110, 61, 97, 98, 99, 59, 32, 77, 97, 120, 45, 65, 103, 101, 61, 54, 48, 52, 56, 48, 48, 59, 32, 80, 97, 116, 104, 61, 47, 59, 32, 72, 116, 116, 112, 79, 110, 108, 121, 59, 32, 83, 101, 99, 117, 114, 101, 59, 32, 83, 97, 109, 101, 83, 105, 116, 101, 61, 76, 97, 120>>,
      <<>>,                                          \* ''
      <<97, 61, 98, 61, 99>>,                       \* 'a=b=c'
      <<120, 61, 37, 122, 122>>,                  \* 'x=%zz'
      <<115, 101, 115, 115, 105, 111, 110>>,          \* 'session'
      <<32, 97, 32, 61, 32, 98, 32, 59, 99>>,      \* ' a = b ;c'
      <<97, 61, 49, 59, 32, 97, 61, 50>>,        \* 'a=1; a=2'
      <<107, 61, 59, 32, 115, 101, 115, 115, 105, 111, 110, 61, 97, 37, 50, 66, 98>> }
                                                     \* 'k=; session=a%2Bb'

\* the state outside the cookie
outsideCookie == <<compareVars, callVars, headerVars>>

InitCookie ==
    /\ impl \in {"sync", "async"}
    /\ env \in Envs(impl)
    /\ NoToken
    /\ cmp = NoCompare
    /\ NoCalls
    /\ cphase = "start"
    /\ cargs = [fn |-> "none"]
    /\ cookie = Ok(<<>>)
    /\ fields = <<>>
    /\ NoHeaders

\* cookie = await createCookie(data, key, name, env)
CreateCookie ==
    /\ cphase = "start"
    /\ \E d \in SessionData, k \in SecretKeys, n \in CookieNames,
          e \in CookieEnvs :
          /\ data' = d
          /\ key' = k
          /\ cargs' = [fn |-> "createCookie", name |-> n, val |-> <<>>,
                       opts |-> getCookieOptions(e), cenv |-> e]
          /\ cookie' = createCookie(impl, d, k, n, e)
    /\ cphase' = IF cookie'.threw THEN "failed" ELSE "cookie"
    /\ UNCHANGED <<impl, env, phase, issued, reordered, reissued, edit,
                   presented, vkey, ok, parsed, fields>>
    /\ UNCHANGED outsideCookie

\* cookie = serializeCookie(name, val, opts)
SerializeCookie ==
    /\ cphase = "start"
    /\ \E n \in SerializeNames, v \in SerializeValues, o \in SerializeOptions :
          /\ cargs' = [fn |-> "serializeCookie", name |-> n, val |-> v,
                       opts |-> o, cenv |-> NoCookieEnv]
          /\ cookie' = serializeCookie(n, v, o)
    /\ cphase' = IF cookie'.threw THEN "failed" ELSE "cookie"
    /\ UNCHANGED <<tokenVars, fields>>
    /\ UNCHANGED outsideCookie

\* a header value arrives: request.headers.get('Cookie')
ReceiveCookie ==
    /\ cphase = "start"
    /\ \E h \in CookieHeaders :
          /\ cargs' = [fn |-> "header", name |-> <<>>, val |-> h,
                       opts |-> NoOptions, cenv |-> NoCookieEnv]
          /\ cookie' = Ok(h)
    /\ cphase' = "cookie"
    /\ UNCHANGED <<tokenVars, fields>>
    /\ UNCHANGED outsideCookie

\* parsed = parseCookie(cookie)
ParseCookie ==
    /\ cphase = "cookie"
    /\ fields' = parseCookie(cookie.val)
    /\ cphase' = "parsed"
    /\ UNCHANGED <<tokenVars, cargs, cookie>>
    /\ UNCHANGED outsideCookie

\* the name createCookie gave the cookie
CookieName ==
    IF cargs.name # <<>> THEN cargs.name ELSE SESSION_COOKIE_NAME_DEFAULT

\* await verifySessionString(parsed[name], key), for a cookie of createCookie
\* under its key; handed anything but a string, verifySessionString throws
\* on session.substring
VerifyCookieSession ==
    /\ cphase = "parsed"
    /\ cargs.fn = "createCookie"
    /\ \E rk \in EphemeralKeys :
          LET session == Get(fields, CookieName)
          IN  /\ presented' = session
              /\ ok' = IF session = True THEN Throw(FALSE)
                       ELSE verifySessionString(impl, env, session, key, rk)
    /\ vkey' = key
    /\ cphase' = "verified"
    /\ UNCHANGED <<impl, env, data, key, phase, issued, reordered, reissued,
                   edit, parsed, cargs, cookie, fields>>
    /\ UNCHANGED outsideCookie

NextCookie ==
    \/ CreateCookie
    \/ SerializeCookie
    \/ ReceiveCookie
    \/ ParseCookie
    \/ VerifyCookieSession

SpecCookie == InitCookie /\ [][NextCookie]_vars

(***************************************************************************)
(* Headers. A Headers instance is a reference into the heap; the object    *)
(* behind it is [guard, list], list being the header list of <<name,       *)
(* value>> entries in order, names lower-cased. A reference is the         *)
(* one-element sequence <<ref>>.                                           *)
(***************************************************************************)
MaxHeaders == 2

\* undefined: what a function without a return statement returns
Undefined == <<-3>>

\* new Headers()
NewHeadersObject == [guard |-> "none", list |-> <<>>]

\* a header value normalized: leading and trailing HTTP whitespace (tab, LF,
\* CR, space) removed
RECURSIVE Normalize(_)
Normalize(value) ==
    IF value # <<>> /\ value[1] \in {9, 10, 13, 32}
    THEN Normalize(Tail(value))
    ELSE IF value # <<>> /\ value[Len(value)] \in {9, 10, 13, 32}
    THEN Normalize(SubSeq(value, 1, Len(value) - 1))
    ELSE value

\* headers.set(name, value) on the object h, for a valid header name: the
\* value is converted to a ByteString (TypeError above 0xff), normalized and
\* validated (TypeError on NUL, LF, CR), an immutable guard throws, and the
\* list keeps the value in the first entry of that name and drops the others
HeadersSet(h, name, value) ==
    LET normalized == Normalize(value)
        at == IF \E i \in 1..Len(h.list) : h.list[i][1] = name
              THEN CHOOSE i \in 1..Len(h.list) :
                       /\ h.list[i][1] = name
                       /\ \A j \in 1..(i - 1) : h.list[j][1] # name
              ELSE Len(h.list) + 1
    IN  IF \E i \in 1..Len(value) : value[i] > 255 THEN Throw(TypeError)
        ELSE IF \E i \in 1..Len(normalized) : normalized[i] \in {0, 10, 13}
             THEN Throw(TypeError)
        ELSE IF h.guard = "immutable" THEN Throw(TypeError)
        ELSE Ok([h EXCEPT !.list =
                    SubSeq(h.list, 1, at - 1)
                    \o << <<name, normalized>> >>
                    \o SelectSeq(SubSeq(h.list, at + 1, Len(h.list)),
                                 LAMBDA e : e[1] # name)])

\* headers.getSetCookie(): the values of the Set-Cookie entries, in order
getSetCookie(h) ==
    LET entries == SelectSeq(h.list, LAMBDA e : e[1] = Text.setCookie)
    IN  [i \in 1..Len(entries) |-> entries[i][2]]

\* a setCookie that never patches: it always makes a new Headers
setCookieNew(hp, cookieString, h) ==
    LET set == HeadersSet(NewHeadersObject, Text.setCookie, cookieString)
    IN  IF set.threw THEN [heap |-> hp, result |-> set]
        ELSE [heap |-> Append(hp, set.val), result |-> Ok(<<Len(hp) + 1>>)]

\* setCookie(cookie, _headers) on the heap hp; h = 0 when _headers is
\* omitted. The Headers made by a call that throws is garbage.
setCookie(hp, cookieString, h) ==
    LET all == IF h # 0 THEN hp ELSE Append(hp, NewHeadersObject)
        headers == IF h # 0 THEN h ELSE Len(hp) + 1
        set == HeadersSet(all[headers], Text.setCookie, cookieString)
    IN  IF set.threw THEN [heap |-> hp, result |-> set]
        ELSE [heap |-> [all EXCEPT ![headers] = set.val],
              result |-> Ok(<<headers>>)]

\* an rmCookie that writes the marker whether or not there is a Set-Cookie
rmCookieAlways(hp, headers, name) ==
    LET delKey == IF name # <<>> THEN name ELSE SESSION_COOKIE_NAME_DEFAULT
        set == HeadersSet(hp[headers], Text.setCookie, delKey \o Text.deleted)
    IN  IF set.threw THEN [heap |-> hp, result |-> set]
        ELSE [heap |-> [hp EXCEPT ![headers] = set.val],
              result |-> Ok(Undefined)]

\* rmCookie(headers, name) on the heap hp; an omitted name is <<>>.
\* `if (cookie)` is false for no Set-Cookie and for an empty first one.
rmCookie(hp, headers, name) ==
    LET delKey == IF name # <<>> THEN name ELSE SESSION_COOKIE_NAME_DEFAULT
        cookies == getSetCookie(hp[headers])
        del == delKey \o Text.deleted
        set == HeadersSet(hp[headers], Text.setCookie, del)
    IN  IF cookies = <<>> \/ cookies[1] = <<>>
        THEN [heap |-> hp, result |-> Ok(Undefined)]
        ELSE IF set.threw THEN [heap |-> hp, result |-> set]
        ELSE [heap |-> [hp EXCEPT ![headers] = set.val],
              result |-> Ok(Undefined)]

\* the cookie argument of setCookie: the cookie of the README, ' a=b' (what
\* serializeCookie(' a', 'b') returns), 'a\nb', U+0100 '=1', 'a=b\n'
HeaderCookies ==
    { <<115, 101, 115, 115, 105, 111, 110, 61, 97, 98, 99, 59, 32, 77, 97, 120, 45, 65, 103, 101, 61, 54, 48, 52, 56, 48, 48, 59, 32, 80, 97, 116, 104, 61, 47, 59, 32, 72, 116, 116, 112, 79, 110, 108, 121, 59, 32, 83, 101, 99, 117, 114, 101, 59, 32, 83, 97, 109, 101, 83, 105, 116, 101, 61, 76, 97, 120>>,
      <<32, 97, 61, 98>>, <<97, 10, 98>>, <<256, 61, 49>>, <<97, 61, 98, 10>> }

\* the name argument of rmCookie: omitted, ' sid', 's\n'
RmNames == { <<>>, <<32, 115, 105, 100>>, <<115, 10>> }

\* the init argument of new Headers(init): none; Content-Type 'text/html';
\* Set-Cookie 'a=b'; Set-Cookie '' and Set-Cookie 'a=b'; Content-Type
\* 'text/html', Set-Cookie 'a=b' and Set-Cookie 'c=d'
HeadersInits ==
    { <<>>,
      << <<Text.contentType, <<116, 101, 120, 116, 47, 104, 116, 109, 108>>>> >>,
      << <<Text.setCookie, <<97, 61, 98>>>> >>,
      << <<Text.setCookie, <<>>>>, <<Text.setCookie, <<97, 61, 98>>>> >>,
      << <<Text.contentType, <<116, 101, 120, 116, 47, 104, 116, 109, 108>>>>,
         <<Text.setCookie, <<97, 61, 98>>>>,
         <<Text.setCookie, <<99, 61, 100>>>> >> }

\* the header lists of the responses a fetch returns
ResponseLists ==
    { <<>>, << <<Text.setCookie, <<97, 61, 98>>>> >> }

\* the state outside the Headers
outsideHeaders == <<data, key, phase, issued, reordered, reissued, edit,
                    presented, vkey, ok, parsed, env, compareVars, callVars,
                    cookieVars>>

InitHeaders ==
    /\ impl \in {"sync", "async"}
    /\ env = "node"
    /\ NoToken
    /\ cmp = NoCompare
    /\ NoCalls
    /\ NoCookie
    /\ NoHeaders

\* the caller: const headers = new Headers(init)
NewHeaders ==
    /\ Len(heap) < MaxHeaders
    /\ \E init \in HeadersInits :
          heap' = Append(heap, [guard |-> "none", list |-> init])
    /\ hcall' = NoHeaderCall
    /\ UNCHANGED <<impl, outsideHeaders>>

\* the caller: const headers = (await fetch(...)).headers, which no one
\* may change
ResponseHeaders ==
    /\ Len(heap) < MaxHeaders
    /\ \E list \in ResponseLists :
          heap' = Append(heap, [guard |-> "immutable", list |-> list])
    /\ hcall' = NoHeaderCall
    /\ UNCHANGED <<impl, outsideHeaders>>

\* the Headers object a call works on, as it was before the call
Was(h) == IF h # 0 THEN heap[h] ELSE NewHeadersObject

\* setCookie(cookie) / setCookie(cookie, headers)
SetCookie ==
    /\ \E c \in HeaderCookies, h \in 0..Len(heap) :
          /\ h = 0 => Len(heap) < MaxHeaders
          /\ heap' = setCookie(heap, c, h).heap
          /\ hcall' = [fn |-> "setCookie", cookie |-> c, h |-> h,
                       name |-> <<>>, was |-> Was(h), size |-> Len(heap),
                       result |-> setCookie(heap, c, h).result]
    /\ UNCHANGED <<impl, outsideHeaders>>

\* rmCookie(headers) / rmCookie(headers, name): the async implementation
\* only
RmCookie ==
    /\ impl = "async"
    /\ \E h \in 1..Len(heap), n \in RmNames :
          /\ heap' = rmCookie(heap, h, n).heap
          /\ hcall' = [fn |-> "rmCookie", cookie |-> <<>>, h |-> h,
                       name |-> n, was |-> Was(h), size |-> Len(heap),
                       result |-> rmCookie(heap, h, n).result]
    /\ UNCHANGED <<impl, outsideHeaders>>

NextHeaders ==
    \/ NewHeaders
    \/ ResponseHeaders
    \/ SetCookie
    \/ RmCookie

SpecHeaders == InitHeaders /\ [][NextHeaders]_vars

(***************************************************************************)
(* A deployment that mixes the two implementations: a token created by    *)
(* one is verified by the other, under the same key.                       *)
(***************************************************************************)
\* the other implementation
Other(i) == IF i = "sync" THEN "async" ELSE "sync"

\* ok = await verifySessionString(session, key) of the other implementation,
\* on the build e of uint8arrays it runs on
CrossVerify ==
    /\ phase = "issued"
    /\ presented' = issued
    /\ edit' = [kind |-> "cross", at |-> 0]
    /\ vkey' = key
    /\ \E e \in Envs(Other(impl)), rk \in EphemeralKeys :
          /\ env' = e
          /\ ok' = verifySessionString(Other(impl), e, issued, key, rk)
    /\ phase' = "verified"
    /\ UNCHANGED <<impl, data, key, issued, reordered, reissued, parsed>>
    /\ UNCHANGED outsideToken

NextCross ==
    \/ CreateSession
    \/ CrossVerify

SpecCross == Init /\ [][NextCross]_vars

(***************************************************************************)
(* Tokens the holder of the key signs with the exported sign.              *)
(***************************************************************************)
\* the texts signed: '', 'hi', '{}'
SignedPayloads == {<<>>, <<104, 105>>, <<123, 125>>}

\* const token = (await sign(payload, key)) + toString(fromString(payload),
\* 'base64'): the signature of a text followed by the text in base64
SignToken ==
    /\ phase = "start"
    /\ \E payload \in SignedPayloads :
          LET sig == sign(impl, Utf8Encode(payload), key)
          IN  /\ ~sig.threw
              /\ presented' = sig.val \o ToBase64(Utf8Encode(payload))
    /\ edit' = [kind |-> "sign", at |-> 0]
    /\ phase' = "presented"
    /\ UNCHANGED <<impl, env, data, key, issued, reordered, reissued, vkey, ok,
                   parsed>>
    /\ UNCHANGED outsideToken

\* tokens of createSession and tokens signed directly
NextSigned ==
    \/ CreateSession
    \/ PresentToken
    \/ SignToken
    \/ VerifySessionString
    \/ ParseSession

SpecSigned == Init /\ [][NextSigned]_vars

(***************************************************************************)
(* Properties.                                                             *)
(***************************************************************************)
\* verifySessionString has returned
Verified == phase \in {"verified", "parsed"}

\* createSession has returned a token
HasIssued ==
    \/ phase \in {"issued", "reissued"}
    \/ phase \in {"presented", "verified", "parsed"} /\ edit.kind # "inject"

\* the signature length of the running implementation
N == SIGNATURE_DIGEST_LENGTH(impl)

\* the canonical JSON of the session data, as bytes
CanonicalBytes == Utf8Encode(stringify(data))

\* C1: a token verified unchanged under the key it was created with
\* verifies: verifySessionString(createSession(d, k), k) is true.
RoundTripVerify ==
    (Verified /\ edit.kind = "none" /\ vkey = key) => ok = Ok(TRUE)

RoundTripVerifyWitness ==
    /\ phase = "verified" /\ edit.kind = "none" /\ vkey = key
    /\ impl = "async" /\ data # <<>>
    /\ ok = Ok(TRUE)

\* C2: parseSession(createSession(d, k)) is deep-equal to d.
RoundTripDecode ==
    (phase = "parsed" /\ edit.kind = "none")
        => (~parsed.threw /\ DeepEqual(parsed.val, data))

RoundTripDecodeWitness ==
    /\ phase = "parsed" /\ edit.kind = "none"
    /\ \E i \in 1..Len(data) : 34 \in {data[i][2][j] : j \in 1..Len(data[i][2])}
    /\ ~parsed.threw /\ parsed.val = data

\* C3 as stated: a token verified under any other key string is rejected.
WrongKeyRejected ==
    (Verified /\ edit.kind = "none" /\ vkey # key) => ok = Ok(FALSE)

\* the key bytes a key string stands for: the string itself as UTF-8 (sync),
\* its base64 decoding (async, where a string that does not decode or
\* decodes to nothing is no key)
SecretOf(k) ==
    IF impl = "sync" THEN Ok(Utf8Encode(k))
    ELSE IF FromBase64(k).threw \/ FromBase64(k).val = <<>> THEN Throw(<<>>)
    ELSE FromBase64(k)

\* two key strings that stand for the same HMAC key: the same bytes up to
\* trailing zero bytes
SameSecret(k1, k2) ==
    /\ ~SecretOf(k1).threw
    /\ ~SecretOf(k2).threw
    /\ HmacKey(SecretOf(k1).val) = HmacKey(SecretOf(k2).val)

\* C3, amended: a token verified under a key string that stands for
\* another HMAC key (other key bytes, trailing zero bytes aside) is
\* rejected.
OtherSecretRejected ==
    (Verified /\ edit.kind = "none" /\ ~SameSecret(key, vkey)) => ok = Ok(FALSE)

OtherSecretRejectedWitness ==
    /\ phase = "verified" /\ edit.kind = "none"
    /\ ~SecretOf(vkey).threw /\ ~SameSecret(key, vkey)
    /\ ok = Ok(FALSE)

\* C4 as stated: a token with one character replaced by a different
\* character does not verify under the key it was created with.
TamperRejected ==
    (Verified /\ edit.kind = "replace" /\ vkey = key) => ok = Ok(FALSE)

\* C5: a token with extra characters in front of it does not verify.
PrefixRejected ==
    (Verified /\ edit.kind = "prefix" /\ vkey = key) => ok = Ok(FALSE)

\* the shifted payload still decodes, so the signature is what rejects
PrefixRejectedWitness ==
    /\ phase = "verified" /\ edit.kind = "prefix" /\ vkey = key
    /\ ~FromBase64(Substring(presented, N, Len(presented))).threw
    /\ ok = Ok(FALSE)

\* decoding the payload of the presented token, or importing the key,
\* raises
DecodingRaises ==
    \/ FromBase64(Substring(presented, N, Len(presented))).threw
    \/ keyBytes(impl, vkey).threw

\* C6: verifySessionString never throws; it returns a boolean, and false
\* whenever decoding or signing raised.
FailClosed ==
    Verified => /\ ~ok.threw
                /\ ok.val \in BOOLEAN
                /\ DecodingRaises => ok.val = FALSE

FailClosedWitness ==
    /\ phase = "verified" /\ edit.kind = "inject"
    /\ Len(presented) > N
    /\ FromBase64(Substring(presented, N, Len(presented))).threw
    /\ ok = Ok(FALSE)

\* C7: the same properties inserted in another order give the same token
\* under the same key.
CanonicalDeterminism ==
    phase = "reissued" => reissued = issued

CanonicalDeterminismWitness ==
    /\ phase = "reissued"
    /\ reordered # data
    /\ reissued = issued

\* C8: sign returns exactly N characters (43 async, 27 sync); the token is
\* longer than N, its first N characters are the signature and the rest
\* is not empty.
FixedOffsetFraming ==
    HasIssued =>
        LET sig == sign(impl, CanonicalBytes, key).val
        IN  /\ N = (IF impl = "async" THEN 43 ELSE 27)
            /\ Len(sig) = N
            /\ Len(issued) > N
            /\ Substring(issued, 0, N) = sig
            /\ Substring(issued, N, Len(issued)) # <<>>

FixedOffsetFramingWitness ==
    /\ phase = "issued" /\ impl = "sync"
    /\ Len(issued) > 27
    /\ data = <<>>

\* C9: the token is sign(J, k) followed, with nothing in between, by the
\* base64 of the UTF-8 bytes of the canonical JSON J; the signature is
\* over the bytes of J, not over their base64 text.
TokenComposition ==
    HasIssued =>
        /\ issued = sign(impl, CanonicalBytes, key).val \o ToBase64(CanonicalBytes)
        /\ FromBase64(Substring(issued, N, Len(issued))) = Ok(CanonicalBytes)
        /\ Substring(issued, 0, N)
               # sign(impl, Utf8Encode(ToBase64(CanonicalBytes)), key).val

TokenCompositionWitness ==
    /\ phase = "issued" /\ impl = "async"
    /\ Len(data) = 2
    /\ Len(issued) = 43 + Len(ToBase64(CanonicalBytes))

\* A-Z a-z 0-9
AlphaNumeric == (65..90) \cup (97..122) \cup (48..57)

\* C10 as stated: the whole token is made of URL-safe base64 characters;
\* it holds no '+', '/' or '='.
TokenUrlSafe ==
    HasIssued => \A i \in 1..Len(issued) : issued[i] \in AlphaNumeric \cup {45, 95}

\* C10, amended: the signature is made of URL-safe base64 characters; the
\* payload is unpadded standard base64, so it holds no '=', '-' or '_' but
\* may hold '+' and '/'.
TokenAlphabet ==
    HasIssued =>
        /\ \A i \in 1..N : issued[i] \in AlphaNumeric \cup {45, 95}
        /\ \A i \in (N + 1)..Len(issued) : issued[i] \in AlphaNumeric \cup {43, 47}

TokenAlphabetWitness ==
    /\ phase = "issued"
    /\ \E i \in 1..N : issued[i] \in {45, 95}
    /\ \E i \in (N + 1)..Len(issued) : issued[i] \in {43, 47}

\* C11 as stated: timeSafeCompare(a, b) is true if and only if a and b are
\* the same string, code unit for code unit; strings of unequal length
\* compare unequal.
ComparatorCorrect ==
    cmp.phase = "done" => (cmp.result <=> (cmp.a = cmp.b))

\* C13: parseSession does not verify.  A token whose signature (one of its
\* first N characters) was overwritten is rejected by verifySessionString,
\* and parseSession still returns the data of the token as issued: the
\* result depends on the characters after the first N only.
ParseIgnoresSignature ==
    (phase = "parsed" /\ edit.kind = "replace" /\ edit.at <= N)
        => /\ ok = Ok(FALSE)
           /\ ~parsed.threw
           /\ DeepEqual(parsed.val, data)

\* such a token is rejected under every key of the model
ParseIgnoresSignatureWitness ==
    /\ phase = "parsed" /\ edit.kind = "replace" /\ edit.at <= N
    /\ presented[edit.at] = 33
    /\ data # <<>>
    /\ \A k \in SecretKeys, rk \in EphemeralKeys :
          verifySessionString(impl, env, presented, k, rk) = Ok(FALSE)
    /\ parsed = Ok(data)

\* C14: whatever other calls ran in between, a call that has settled
\* returned what the same call returns when it runs alone with the same
\* arguments (for verifySessionString, whatever the random key of its
\* comparison).
CallIndependence ==
    \A c \in DOMAIN calls :
        calls[c].pc = "done" =>
            IF calls[c].op = "createSession"
            THEN calls[c].result
                     = createSession("async", calls[c].data, calls[c].key)
            ELSE \A rk \in EphemeralKeys :
                     calls[c].result
                         = verifySessionString("async", env, calls[c].session,
                                               calls[c].key, rk)

\* a token has verified in a run in which a createSession for other data
\* has settled too
CallIndependenceWitness ==
    /\ DOMAIN calls = Calls
    /\ calls[1].op = "verifySessionString" /\ calls[1].pc = "done"
    /\ calls[1].result = Ok(TRUE)
    /\ calls[2].op = "createSession" /\ calls[2].pc = "done"
    /\ calls[2].data # DataList[2]
    /\ ~calls[2].result.threw
    /\ frames[1].hmac # <<>>


\* C15: the cookie of createCookie(d, k), with the name omitted or a name
\* that is no attribute name, parses to a mapping that holds the token
\* createSession(d, k) under the cookie's name, and the token verifies
\* under k; createCookie fails only when createSession does.
CookieRoundTrip ==
    (cargs.fn = "createCookie" /\ cargs.name \in {<<>>, <<115, 105, 100>>})
        => /\ cphase = "failed" => createSession(impl, data, key).threw
           /\ cphase \in {"parsed", "verified"}
                  => Ok(Get(fields, CookieName)) = createSession(impl, data, key)
           /\ cphase = "verified" => ok = Ok(TRUE)

\* a default-named cookie whose token was escaped by serializeCookie ('+' or
\* '/' in the payload) has been parsed and its session verified
CookieRoundTripWitness ==
    /\ cphase = "verified"
    /\ cargs.fn = "createCookie"
    /\ cargs.name = <<>>
    /\ \E i \in 1..Len(cookie.val) : cookie.val[i] = 37
    /\ Get(fields, SESSION_COOKIE_NAME_DEFAULT) = presented
    /\ ok = Ok(TRUE)


\* the attribute names in the order the specification fixes: Max-Age, Domain,
\* Path, Expires, HttpOnly, Secure, Partitioned, Priority, SameSite
AttributeOrder ==
    << <<77, 97, 120, 45, 65, 103, 101>>,
       <<68, 111, 109, 97, 105, 110>>,
       <<80, 97, 116, 104>>,
       <<69, 120, 112, 105, 114, 101, 115>>,
       <<72, 116, 116, 112, 79, 110, 108, 121>>,
       <<83, 101, 99, 117, 114, 101>>,
       <<80, 97, 114, 116, 105, 116, 105, 111, 110, 101, 100>>,
       <<80, 114, 105, 111, 114, 105, 116, 121>>,
       <<83, 97, 109, 101, 83, 105, 116, 101>> >>

\* whether the options set the i-th attribute of AttributeOrder
AttributeSet(opts) ==
    << opts.maxAge # <<>>, opts.domain # <<>>, opts.path # <<>>,
       opts.expires # <<>>, opts.httpOnly, opts.secure, opts.partitioned,
       opts.priority # <<>>, opts.sameSite # <<>> >>

\* the i-th attribute name when that attribute is set, '' otherwise
AttributeIfSet(opts, i) ==
    IF AttributeSet(opts)[i] THEN AttributeOrder[i] ELSE <<>>

\* the name of the attribute in a '; '-separated segment: the text between
\* the leading space and the '=' or the end
AttributeName(segment) == Split(Tail(segment), 61, 1)[1]

CookieSegments ==
    LET segments == Split(cookie.val, 59, 1)
    IN  [i \in 1..Len(segments) |-> Trim(segments[i])]

\* the k of a segment: the text before its first '=', or all of it
SegmentKey(segment) == SubSeq(segment, 1, IndexFrom(segment, 61, 1) - 1)

\* the v of a `k=v` segment: the text after its first '='
SegmentValue(segment) ==
    SubSeq(segment, IndexFrom(segment, 61, 1) + 1, Len(segment))

\* C17: parseCookie maps every trimmed segment `k=v` to k -> URL-decoded v
\* and every segment without '=' to k -> true (the last segment of a key
\* decides, and a v that has no URL-decoding is left open), and the result
\* has a session key, '' when no segment names it.
ParseMapping ==
    cphase \in {"parsed", "verified"} =>
        /\ SESSION_COOKIE_NAME_DEFAULT \in Keys(fields)
        /\ (\A i \in DOMAIN CookieSegments :
                SegmentKey(CookieSegments[i]) # SESSION_COOKIE_NAME_DEFAULT)
               => Get(fields, SESSION_COOKIE_NAME_DEFAULT) = <<>>
        /\ \A i \in DOMAIN CookieSegments :
               LET segment == CookieSegments[i]
                   k == SegmentKey(segment)
                   v == SegmentValue(segment)
               IN  (\A j \in (i + 1)..Len(CookieSegments) :
                        SegmentKey(CookieSegments[j]) # k)
                       => /\ k \in Keys(fields)
                          /\ IF IndexFrom(segment, 61, 1) > Len(segment)
                             THEN Get(fields, k) = True
                             ELSE ~decode(v).threw
                                      => Get(fields, k) = decode(v).val


\* an HTTP header field-content character: tab, 0x20-0x7e, 0x80-0xff
IsFieldContent(c) == c = 9 \/ c \in 32..126 \/ c \in 128..255

\* a character outside field-content occurs in str
OutsideFieldContent(str) == \E i \in 1..Len(str) : ~IsFieldContent(str[i])

\* C18: serializeCookie throws a TypeError and returns no string when the
\* name is empty or holds a character outside field-content, or when the
\* encoded value holds one; createCookie, whose token is always
\* field-content, lets the TypeError of an invalid name through.
SerializeValidation ==
    /\ (cargs.fn = "serializeCookie" /\ cphase # "start") =>
           LET value == IF cargs.opts.encode = "default"
                        THEN encode(cargs.val) ELSE Ok(cargs.val)
           IN  (\/ cargs.name = <<>>
                \/ OutsideFieldContent(cargs.name)
                \/ ~value.threw /\ OutsideFieldContent(value.val))
                   => (cookie = Throw(TypeError) /\ cphase = "failed")
    /\ (/\ cargs.fn = "createCookie"
        /\ cphase # "start"
        /\ OutsideFieldContent(CookieName)
        /\ ~createSession(impl, data, key).threw)
           => (cookie = Throw(TypeError) /\ cphase = "failed")

\* serializeCookie was called with a valid name and a value whose encoding
\* (the caller's encode) holds a line feed, and threw
SerializeValidationWitness ==
    /\ cargs.fn = "serializeCookie"
    /\ cargs.name = SESSION_COOKIE_NAME_DEFAULT
    /\ cargs.opts.encode = "identity"
    /\ cargs.val = <<97, 10>>
    /\ cookie = Throw(TypeError)
    /\ cphase = "failed"


\* the Headers a returned setCookie call returned
Returned == heap[hcall.result.val[1]]

\* the call returned the instance it was given, or one that was not there
\* before when it was given none
SameOrNew ==
    /\ ~hcall.result.threw
    /\ hcall.h # 0 => hcall.result.val = <<hcall.h>>
    /\ hcall.h = 0 => (hcall.result.val = <<hcall.size + 1>>
                       /\ Len(heap) = hcall.size + 1)

\* C19 as stated: setCookie(cookie) returns a new Headers, and
\* setCookie(cookie, h) the instance h itself, whose Set-Cookie value is
\* exactly the cookie string.
SetCookieExact ==
    hcall.fn = "setCookie"
        => (SameOrNew /\ getSetCookie(Returned) = <<hcall.cookie>>)

\* str starts or ends with HTTP whitespace: tab, LF, CR or space
HasOuterWhitespace(str) ==
    /\ str # <<>>
    /\ str[1] \in {9, 10, 13, 32} \/ str[Len(str)] \in {9, 10, 13, 32}

\* str can be a header value: code units up to 0xff and, between its first
\* and last code unit that is no HTTP whitespace, no NUL, LF or CR
IsHeaderValue(str) ==
    /\ \A i \in 1..Len(str) : str[i] <= 255
    /\ \A i \in 1..Len(str) :
           str[i] \in {0, 10, 13}
               => \/ str[i] # 0 /\ \A j \in 1..i : str[j] \in {9, 10, 13, 32}
                  \/ str[i] # 0
                         /\ \A j \in i..Len(str) : str[j] \in {9, 10, 13, 32}

\* C19, amended: for a cookie string that can be a header value and a Headers
\* that is not immutable, setCookie returns a new Headers, or the instance h
\* itself, whose only Set-Cookie value is the cookie string without its
\* leading and trailing HTTP whitespace, so exactly the cookie string when it
\* has none, the other headers of h being kept; for a string that cannot be
\* a header value, or an immutable h, setCookie throws a TypeError and
\* changes nothing.
SetCookiePatch ==
    hcall.fn = "setCookie" =>
        IF ~IsHeaderValue(hcall.cookie) \/ hcall.was.guard = "immutable"
        THEN /\ hcall.result = Throw(TypeError)
             /\ Len(heap) = hcall.size
             /\ hcall.h # 0 => heap[hcall.h] = hcall.was
        ELSE /\ SameOrNew
             /\ getSetCookie(Returned) = <<Normalize(hcall.cookie)>>
             /\ ~HasOuterWhitespace(hcall.cookie)
                    => getSetCookie(Returned) = <<hcall.cookie>>
             /\ SelectSeq(Returned.list, LAMBDA e : e[1] # Text.setCookie)
                    = SelectSeq(hcall.was.list,
                                LAMBDA e : e[1] # Text.setCookie)

\* setCookie(cookie, h) has patched the second of two instances, which held
\* two Set-Cookie values and a Content-Type, with the cookie of the README
SetCookiePatchWitness ==
    /\ hcall.fn = "setCookie"
    /\ hcall.h = 2
    /\ Len(getSetCookie(hcall.was)) = 2
    /\ Len(hcall.was.list) = 3
    /\ hcall.result = Ok(<<2>>)
    /\ Len(heap[2].list) = 2
    /\ getSetCookie(heap[2]) = <<hcall.cookie>>
    /\ Len(hcall.cookie) > 8


\* C20: when the Headers h carries a Set-Cookie, rmCookie(h, name) leaves h
\* with the one Set-Cookie value
\* `<name or 'session'>=deleted; path=/; expires=Thu, 01 Jan 1970 00:00:00 GMT`.
RmCookieMarker ==
    (hcall.fn = "rmCookie" /\ getSetCookie(hcall.was) # <<>>)
        => /\ ~hcall.result.threw
           /\ getSetCookie(heap[hcall.h]) =
                  << (IF hcall.name # <<>> THEN hcall.name
                      ELSE SESSION_COOKIE_NAME_DEFAULT) \o Text.deleted >>


\* sub occurs in str
Includes(str, sub) ==
    \E i \in 1..(Len(str) - Len(sub) + 1) :
        SubSeq(str, i, i + Len(sub) - 1) = sub

\* C21: rmCookie(headers), for a Headers that can be changed and whose first
\* Set-Cookie value is not empty, returns a Headers object whose first
\* Set-Cookie value contains '01 Jan 1970 00:00:00'.
RmCookieReturnsHeaders ==
    (/\ hcall.fn = "rmCookie"
     /\ hcall.name = <<>>
     /\ hcall.was.guard = "none"
     /\ getSetCookie(hcall.was) # <<>>
     /\ getSetCookie(hcall.was)[1] # <<>>)
        => /\ ~hcall.result.threw
           /\ hcall.result.val[1] \in 1..Len(heap)
           /\ Includes(getSetCookie(heap[hcall.result.val[1]])[1],
                       \* '01 Jan 1970 00:00:00'
                       <<48, 49, 32, 74, 97, 110, 32, 49, 57, 55, 48, 32, 48, 48, 58, 48, 48, 58, 48, 48>>)


\* the HMAC-SHA-256 of str under the random key of the comparison
DigestOf(str) == Hmac("sha256", cmp.rk, Utf8Encode(str))

\* C22: timeSafeCompare(a, b) reports equality exactly when the digests of a
\* and b under the key of this comparison match and a and b are themselves
\* equal; matching digests of unequal values give false.
DoubleHmac ==
    cmp.phase = "done"
        => (cmp.result <=> (DigestOf(cmp.a) = DigestOf(cmp.b)
                            /\ cmp.a = cmp.b))


\* C23: a token created by one implementation is rejected, with false, by
\* verifySessionString of the other implementation under the same key.
NotInterchangeable ==
    (phase = "verified" /\ edit.kind = "cross") => ok = Ok(FALSE)

\* a token of the async implementation (43 signature characters) was handed
\* to the sync one and rejected
NotInterchangeableWitness ==
    /\ phase = "verified"
    /\ edit.kind = "cross"
    /\ impl = "async"
    /\ data # <<>>
    /\ presented = issued
    /\ Len(presented) > 43
    /\ ok = Ok(FALSE)


\* the deletion marker rmCookie writes for the name it was given, as a
\* Headers keeps it
Marker ==
    Normalize((IF hcall.name # <<>> THEN hcall.name
               ELSE SESSION_COOKIE_NAME_DEFAULT) \o Text.deleted)

\* C24: after a setCookie or rmCookie call that returned, the instance it
\* worked on holds at most one Set-Cookie value, the one written by the last
\* call that wrote: the cookie of a setCookie, the marker of an rmCookie that
\* found a Set-Cookie, and none after an rmCookie that found none.
SingleSetCookie ==
    (hcall.fn # "none" /\ ~hcall.result.threw) =>
        LET h == IF hcall.h # 0 THEN hcall.h ELSE hcall.size + 1
            cookies == getSetCookie(heap[h])
        IN  /\ Len(cookies) <= 1
            /\ hcall.fn = "setCookie" => cookies = <<Normalize(hcall.cookie)>>
            /\ hcall.fn = "rmCookie" =>
                   cookies = IF getSetCookie(hcall.was) # <<>>
                             THEN <<Marker>> ELSE <<>>


\* the headers of a Headers object other than Set-Cookie, in order
OtherHeaders(h) == SelectSeq(h.list, LAMBDA e : e[1] # Text.setCookie)

\* C25: rmCookie on an instance without a Set-Cookie returns and leaves the
\* instance as it was; on any instance it leaves the headers other than
\* Set-Cookie as they were and makes no new instance; and a second rmCookie
\* with the same arguments changes nothing more and ends as the first did.
RmCookieFrame ==
    hcall.fn = "rmCookie" =>
        /\ getSetCookie(hcall.was) = <<>>
               => (heap[hcall.h] = hcall.was /\ hcall.result = Ok(Undefined))
        /\ OtherHeaders(heap[hcall.h]) = OtherHeaders(hcall.was)
        /\ heap[hcall.h].guard = hcall.was.guard
        /\ Len(heap) = hcall.size
        /\ rmCookie(heap, hcall.h, hcall.name)
               = [heap |-> heap, result |-> hcall.result]

\* rmCookie has run on an instance that holds a Content-Type and no
\* Set-Cookie, next to another instance
RmCookieFrameWitness ==
    /\ hcall.fn = "rmCookie"
    /\ Len(heap) = 2
    /\ hcall.was.list # <<>>
    /\ getSetCookie(hcall.was) = <<>>
    /\ heap[hcall.h] = hcall.was
    /\ hcall.result = Ok(Undefined)


\* C26: when verifySessionString returned true for a token and a key,
\* parseSession of the token returns, and what it returns is the data whose
\* canonical JSON the token's signature signs under that key.
VerifiedDecodable ==
    (phase = "parsed" /\ ok = Ok(TRUE)) =>
        /\ ~parsed.threw
        /\ Substring(presented, 0, SIGNATURE_DIGEST_LENGTH(impl))
               = sign(impl, Utf8Encode(stringify(parsed.val)), vkey).val

====
